---- MODULE Spec2Model ----
(***************************************************************************)
(* gitlab2gitea: migration of a project's milestones, labels and open      *)
(* issues from GitLab (source) to Gitea (destination).                     *)
(*                                                                         *)
(* The engine is single threaded; every remote call blocks.  One action    *)
(* of the model is one remote call together with the code that handles     *)
(* its result, or one loop iteration that issues no remote call (the       *)
(* `continue` of an existing milestone or label).                          *)
(*                                                                         *)
(* The two services are modelled by what their API contracts do:           *)
(*   - GitLab list calls filter by the requested state and return the      *)
(*     requested page, at most min(per_page, server cap) items;            *)
(*   - Gitea list calls return one page per request (page 0/unset is       *)
(*     page 1), create calls append an entity with a fresh id/index,       *)
(*     EditIssue is a partial update (a nil field is left unchanged),      *)
(*     ReplaceIssueLabels replaces the whole label set.                    *)
(* Every remote call may fail; a failed call has no effect.                *)
(***************************************************************************)
EXTENDS Integers, Sequences, FiniteSets, TLC

(* ---------------- program constants ---------------- *)

\* PerPage of every GitLab list request
PerPage == 100

\* the Go zero values the code relies on
NoDate == 0          \* nil *time.Time
NoID == 0            \* zero int64 of CreateIssueOption.Milestone
NoMilestone == ""    \* issue.Milestone == nil
UnsetPage == 0       \* gitea.ListOptions{} left at its zero value
NoState == ""        \* EditIssueOption.State left nil

(* ---------------- bounds of the model ---------------- *)

\* items per page of a Gitea listing (server side setting)
DstPageSize == 2
\* largest per_page the GitLab server of the small scenarios honours
MaxSrcCap == 2
\* longest source listings of the small scenarios
MaxSrcMilestones == 2
MaxSrcLabels == 2
MaxSrcIssues == 2
\* longest initial destination listings
MaxDstMilestones == 3
MaxDstLabels == 3
MaxDstIssues == 3
\* runs of the tool in the re-run specification
MaxRuns == 2
MaxPathLen == 3
MaxExternal == 1
MaxPage == 3

(* ---------------- generic helpers ---------------- *)

Min(a, b) == IF a < b THEN a ELSE b

\* the largest element of a finite set of naturals, 0 for the empty set
MaxOf(S) == IF S = {} THEN 0 ELSE CHOOSE x \in S : \A y \in S : y <= x

SeqsUpTo(S, n) == UNION { [1..k -> S] : k \in 0..n }

\* strings.Split on a string given as its sequence of characters
\* (sep is one character): cut at the first separator only
SplitAtFirst(s, sep) ==
    LET at == {i \in DOMAIN s : s[i] = sep}
    IN IF at = {} THEN <<s>>
       ELSE LET i == CHOOSE j \in at : \A k \in at : j <= k
            IN <<SubSeq(s, 1, i - 1), SubSeq(s, i + 1, Len(s))>>

\* strings.Split on a string given as its sequence of characters
\* (sep is one character): cut at every separator, empty pieces kept
RECURSIVE Split(_, _)
Split(s, sep) ==
    LET at == {i \in DOMAIN s : s[i] = sep}
    IN IF at = {} THEN <<s>>
       ELSE LET i == CHOOSE j \in at : \A k \in at : j <= k
            IN <<SubSeq(s, 1, i - 1)>> \o Split(SubSeq(s, i + 1, Len(s)), sep)

RECURSIVE Flatten(_)
Flatten(pages) == IF pages = <<>> THEN <<>>
                  ELSE Head(pages) \o Flatten(Tail(pages))

IsPrefix(s, t) == /\ Len(s) <= Len(t)
                  /\ \A i \in 1..Len(s) : s[i] = t[i]

\* number of positions of s that satisfy Test
Count(s, Test(_)) == Cardinality({ i \in DOMAIN s : Test(s[i]) })

(* ---------------- the two remote services ---------------- *)

\* GitLab: a listing that is not restricted to a state
FilterStateAll(list, st) == list

\* GitLab: the items of `list` in state `st` (server side state filter)
FilterState(list, st) == SelectSeq(list, LAMBDA x : x.state = st)

\* GitLab: page `page` of `list` for per_page = perPage on a server that
\* honours at most `cap` items per page; past the end the page is empty
SrcPage(list, page, perPage, cap) ==
    LET n  == Min(perPage, cap)
        lo == (page - 1) * n + 1
        hi == Min(page * n, Len(list))
    IN IF page < 1 \/ lo > Len(list) THEN <<>> ELSE SubSeq(list, lo, hi)

\* Gitea: the items of `list` a listing with State `st` covers
DstFilterState(list, st) ==
    IF st = "all" THEN list ELSE SelectSeq(list, LAMBDA x : x.state = st)

\* Gitea: page `page` of `list`; an unset page (0) is served as page 1
DstPage(list, page) ==
    LET p  == IF page = UnsetPage THEN 1 ELSE page
        lo == (p - 1) * DstPageSize + 1
        hi == Min(p * DstPageSize, Len(list))
    IN IF lo > Len(list) THEN <<>> ELSE SubSeq(list, lo, hi)

\* Gitea: a fresh id / index
NextID(list) == MaxOf({ list[i].id : i \in DOMAIN list }) + 1
NextIndex(list) == MaxOf({ list[i].index : i \in DOMAIN list }) + 1

\* Gitea: POST milestones
ServerCreateMilestone(list, o) ==
    Append(list, [id |-> NextID(list), title |-> o.title,
                  description |-> o.description, deadline |-> o.deadline,
                  state |-> "open"])

\* Gitea: POST labels
ServerCreateLabel(list, o) ==
    Append(list, [id |-> NextID(list), name |-> o.name,
                  description |-> o.description, color |-> o.color])

\* Gitea: POST issues
ServerCreateIssue(list, o) ==
    Append(list, [index |-> NextIndex(list), title |-> o.title,
                  body |-> o.body, deadline |-> o.deadline,
                  milestone |-> o.milestone, labels |-> o.labels,
                  state |-> "open"])

\* Gitea: PATCH issues/{index}.  Body and Milestone are always sent (the
\* code passes pointers to them); a nil Deadline leaves the deadline as is
\* and a nil State the state.
ServerEditIssue(list, index, e) ==
    [i \in DOMAIN list |->
        IF list[i].index = index
        THEN [list[i] EXCEPT !.title = e.title,
                             !.body = e.body,
                             !.milestone = e.milestone,
                             !.deadline = IF e.deadline = NoDate THEN @
                                          ELSE e.deadline,
                             !.state = IF e.state = NoState THEN @
                                       ELSE e.state]
        ELSE list[i]]

\* Gitea: PUT issues/{index}/labels
ServerReplaceIssueLabels(list, index, labels) ==
    [i \in DOMAIN list |->
        IF list[i].index = index THEN [list[i] EXCEPT !.labels = labels]
        ELSE list[i]]

(* ---------------- lookup tables ---------------- *)

\* map[string]*T{}
EmptyTable == [k \in {} |-> 0]

\* a table in which the entity seen first under a key stays
PutAllFirstWins(table, list, key) ==
    LET keys == { list[i][key] : i \in DOMAIN list }
        first(k) == CHOOSE i \in DOMAIN list :
                       /\ list[i][key] = k
                       /\ \A j \in DOMAIN list : list[j][key] = k => i <= j
    IN [k \in (DOMAIN table) \cup keys |->
           IF k \in DOMAIN table THEN table[k] ELSE list[first(k)]]

\* for _, x := range list { table[x.key] = x }  added to `table`
PutAll(table, list, key) ==
    LET keys == { list[i][key] : i \in DOMAIN list }
        last(k) == CHOOSE i \in DOMAIN list :
                       /\ list[i][key] = k
                       /\ \A j \in DOMAIN list : list[j][key] = k => j <= i
    IN [k \in (DOMAIN table) \cup keys |->
           IF k \in keys THEN list[last(k)] ELSE table[k]]

\* the map built by giteaMilestones() from one listing response
MilestoneTable(list) == PutAll(EmptyTable, list, "title")
\* the map built by giteaLabels() from one listing response
LabelTable(list) == PutAll(EmptyTable, list, "name")
\* issues[issue.Title] = issue for one page of giteaIssues()
IssueTablePut(table, list) == PutAll(table, list, "title")

(* ---------------- payloads ---------------- *)

\* gitea.CreateMilestoneOption of migrateMilestones
CreateMilestoneOption(m) ==
    [title |-> m.title, description |-> m.description, deadline |-> m.dueDate]

\* gitea.CreateLabelOption of migrateLabels
CreateLabelOption(l) ==
    [name |-> l.name, description |-> l.description, color |-> l.color]

\* o.Milestone of migrateIssue
ResolveMilestone(issue, gMilestones) ==
    IF issue.milestone # NoMilestone /\ issue.milestone \in DOMAIN gMilestones
    THEN gMilestones[issue.milestone].id
    ELSE NoID

\* o.Labels of migrateIssue, had an unknown label been appended as ID 0
RECURSIVE ResolveLabelsKeepUnknown(_, _)
ResolveLabelsKeepUnknown(names, gLabels) ==
    IF names = <<>> THEN <<>>
    ELSE (IF Head(names) \in DOMAIN gLabels
          THEN <<gLabels[Head(names)].id>> ELSE <<NoID>>)
         \o ResolveLabelsKeepUnknown(Tail(names), gLabels)

\* o.Labels of migrateIssue
RECURSIVE ResolveLabels(_, _)
ResolveLabels(names, gLabels) ==
    IF names = <<>> THEN <<>>
    ELSE (IF Head(names) \in DOMAIN gLabels
          THEN <<gLabels[Head(names)].id>> ELSE <<>>)
         \o ResolveLabels(Tail(names), gLabels)

\* the logger.Error calls of migrateIssue, in program order
RECURSIVE LabelWarnings(_, _)
LabelWarnings(names, gLabels) ==
    IF names = <<>> THEN <<>>
    ELSE (IF Head(names) \in DOMAIN gLabels THEN <<>>
          ELSE <<[level |-> "error", msg |-> "Unknown label",
                  value |-> Head(names)]>>)
         \o LabelWarnings(Tail(names), gLabels)

MilestoneWarnings(issue, gMilestones) ==
    IF issue.milestone # NoMilestone /\ issue.milestone \notin DOMAIN gMilestones
    THEN <<[level |-> "error", msg |-> "Unknown milestone",
            value |-> issue.milestone]>>
    ELSE <<>>

IssueWarnings(issue, gMilestones, gLabels) ==
    MilestoneWarnings(issue, gMilestones) \o LabelWarnings(issue.labels, gLabels)

\* gitea.CreateIssueOption of migrateIssue
CreateIssueOption(issue, gMilestones, gLabels) ==
    [title |-> issue.title, body |-> issue.description,
     deadline |-> issue.dueDate,
     milestone |-> ResolveMilestone(issue, gMilestones),
     labels |-> ResolveLabels(issue.labels, gLabels)]

\* edit options that carry the title and the deadline only
EditIssueOptionNoBody(o) ==
    [title |-> o.title, body |-> "", milestone |-> NoID,
     deadline |-> o.deadline, state |-> NoState]

\* edit options that reopen the issue they update
EditIssueOptionReopening(o) ==
    [title |-> o.title, body |-> o.body, milestone |-> o.milestone,
     deadline |-> o.deadline, state |-> "open"]

\* gitea.EditIssueOption of migrateIssue
EditIssueOption(o) ==
    [title |-> o.title, body |-> o.body, milestone |-> o.milestone,
     deadline |-> o.deadline, state |-> NoState]

\* gitea.IssueLabelsOption of migrateIssue
IssueLabelsOption(o) == [labels |-> o.labels]


(* ---------------- state ---------------- *)

VARIABLES
    phase,              \* position in migrateProject: milestones, labels, issues, done, failed
    pc,                 \* position inside the phase function
    page,               \* the `page` loop variable of the running paging loop
    cur,                \* the page of source items being ranged over
    idx,                \* position of the range loop in cur
    existingMilestones, \* `existing` of migrateMilestones
    existingLabels,     \* `existing` of migrateLabels
    giteaIssues,        \* tables of migrateIssues
    giteaMilestones,
    giteaLabels,
    srcMilestones,      \* the GitLab project (all states)
    srcLabels,
    srcIssues,
    srcCap,             \* largest per_page the GitLab server honours
    srcEndless,         \* the GitLab server serves its first page for every page number
    dstEndless,         \* the Gitea server serves its first page of issues for every page number
    external,           \* number of entities another client of the Gitea repository created
    dstMilestones,      \* the Gitea repository
    dstLabels,
    dstIssues,
    calls,              \* remote calls issued by the current run, in order
    logs,               \* logger output of the current run, in order
    run,                \* number of the current run of the tool
    prev,               \* outcome and destination at the end of the runs before
    args,               \* the command line: GitlabProject and GiteaProject
    setupCalls,         \* the steps newMigrator has taken, in order
    giteaOwner,         \* m.giteaOwner
    giteaRepo           \* m.giteaRepo

\* what no step of the run writes: the GitLab project, how the two servers
\* page, and the count of the other client's writes
srcVars == <<srcMilestones, srcLabels, srcIssues, srcCap, srcEndless, dstEndless,
             external>>
dstVars == <<dstMilestones, dstLabels, dstIssues>>
tblVars == <<existingMilestones, existingLabels, giteaIssues, giteaMilestones, giteaLabels>>
loopVars == <<page, cur, idx>>
runVars == <<run, prev>>
setupVars == <<args, setupCalls, giteaOwner, giteaRepo>>
vars == <<phase, pc, loopVars, tblVars, srcVars, dstVars, calls, logs, runVars, setupVars>>

(* ---------------- migrateProject ---------------- *)

\* the phase migrateProject calls first
FirstPhase == "milestones"

\* migrateProject with the label and issue phases in the wrong order
PhaseAfterSwapped(p) ==
    CASE p = "milestones" -> "issues"
      [] p = "issues"     -> "labels"
      [] p = "labels"     -> "done"

\* the phase migrateProject goes to when phase p returned nil
PhaseAfter(p) ==
    CASE p = "milestones" -> "labels"
      [] p = "labels"     -> "issues"
      [] p = "issues"     -> "done"

\* migrateProject returning the error of a phase function as it is
ErrorPrefixBare(p) == ""

\* the prefix migrateProject wraps the error of phase p with
ErrorPrefix(p) ==
    CASE p = "milestones" -> "migrating milestones"
      [] p = "labels"     -> "migrating labels"
      [] p = "issues"     -> "migrating issues"

\* migrateProject dropping the error of a phase and carrying on
ErrorExitIgnored(p) == PhaseAfter(p)

\* where migrateProject goes when phase p returned an error: it returns the
\* wrapped error and main logs it as fatal
ErrorExit(p) == "failed"

\* first position of a phase function
StartPc(p) ==
    CASE p \in {"milestones", "labels"} -> "fetch"
      [] p = "issues" -> "fetchIssues"
      [] OTHER -> "end"

\* the logger.Info line migrateProject/main write when entering p
EnterLog(p) ==
    CASE p = "milestones" -> <<[level |-> "info", msg |-> "Migrating milestones", value |-> ""]>>
      [] p = "labels" -> <<[level |-> "info", msg |-> "Migrating labels", value |-> ""]>>
      [] p = "issues" -> <<[level |-> "info", msg |-> "Migrating issues", value |-> ""]>>
      [] p = "done" -> <<[level |-> "info", msg |-> "Migration finished successfully", value |-> ""]>>
      [] OTHER -> <<>>

\* a logger on which an error-level record ends the process too
ExitsOnError(level) == level \in {"error", "fatal"}

\* the logger: Fatal ends the process, every other level returns to the caller
Exits(level) == level = "fatal"

\* the records of `w` up to the first one that ends the process
UpToExit(w) ==
    LET stops == {i \in DOMAIN w : Exits(w[i].level)}
    IN IF stops = {} THEN w ELSE SubSeq(w, 1, CHOOSE i \in stops : \A j \in stops : i <= j)

\* a remote call as recorded in `calls`
Call(op, arg, ok, res) == [phase |-> phase, op |-> op, arg |-> arg, ok |-> ok, res |-> res]

NoResult == <<>>

\* control moves to phase p (locals of the phase function start fresh)
Enter(p, moreLogs) ==
    /\ phase' = p
    /\ pc' = StartPc(p)
    /\ page' = 1
    /\ cur' = <<>>
    /\ idx' = 0
    /\ logs' = logs \o moreLogs \o EnterLog(p)

\* the running phase function returns nil
ReturnNil == Enter(PhaseAfter(phase), <<>>)

\* the running phase function returns err
ReturnErr ==
    Enter(ErrorExit(phase),
          <<[level |-> "fatal", msg |-> "Migrating the project failed",
             value |-> ErrorPrefix(phase)]>>)

\* the page a GitLab listing serves when asked for page p
ServedPage(p) == IF srcEndless THEN 1 ELSE p

\* the paging loop has not run past the pages explored on an endless listing
PageInBound == srcEndless => page <= MaxPage

\* the page the Gitea issue listing serves when asked for page p
DstServedPage(p) == IF dstEndless THEN 1 ELSE p

\* the loop of giteaIssues() has not run past the pages explored on an
\* endless listing
DstPageInBound == dstEndless => page <= MaxPage

\* a paging loop that takes a page shorter than asked for as the last one
LastPageShort(res) == Len(res) < PerPage

\* if len(items) == 0 { return nil }
LastPage(res) == Len(res) = 0

\* a paging loop that does not increment its page
PageStuck(p) == p

\* a paging loop that steps over every second page
PageSkip(p) == p + 2

\* page++ of the paging loops
NextPageNo(p) == p + 1

\* the range loop moves on; after the last item of the page the paging
\* loop requests the next page
Advance ==
    IF idx < Len(cur)
    THEN /\ idx' = idx + 1
         /\ pc' = "item"
         /\ UNCHANGED <<phase, page, cur>>
    ELSE /\ pc' = "list"
         /\ page' = NextPageNo(page)
         /\ cur' = <<>>
         /\ idx' = 0
         /\ UNCHANGED phase

\* a non-empty page arrived
StartRange(items) ==
    /\ cur' = items
    /\ idx' = 1
    /\ pc' = "item"
    /\ UNCHANGED <<phase, page, logs>>

(* ---------------- newMigrator ---------------- *)

\* the empty string
EmptyPath == <<>>

\* a step of newMigrator as recorded in `setupCalls`
SetupCall(op, arg, ok) == [op |-> op, arg |-> arg, ok |-> ok]

\* main going on with migrateProject although newMigrator returned an error
SetupErrorExitIgnored(msg) == FirstPhase

\* where main goes when newMigrator returned the error `msg`
SetupErrorExit(msg) == "setupFailed"

\* newMigrator returns an error; main logs it with logger.Fatal
SetupErr(msg) ==
    Enter(SetupErrorExit(msg),
          <<[level |-> "fatal", msg |-> "Creating migrator failed", value |-> msg]>>)

\* the step succeeded, newMigrator goes on at `nextPc`
SetupGoOn(nextPc) ==
    /\ pc' = nextPc
    /\ UNCHANGED <<phase, loopVars, logs>>

\* gitlab.NewClient(token, WithBaseURL(server))
GitlabNewClient ==
    /\ phase = "setup" /\ pc = "gitlabNewClient"
    /\ \E ok \in BOOLEAN :
          /\ setupCalls' = Append(setupCalls, SetupCall("gitlab.NewClient", <<>>, ok))
          /\ IF ok THEN SetupGoOn("currentUserStatus")
             ELSE SetupErr("creating Gitlab client")
    /\ UNCHANGED <<args, giteaOwner, giteaRepo, tblVars, srcVars, dstVars, calls, runVars>>

\* client.Users.CurrentUserStatus()
GitlabCurrentUserStatus ==
    /\ phase = "setup" /\ pc = "currentUserStatus"
    /\ \E ok \in BOOLEAN :
          /\ setupCalls' = Append(setupCalls, SetupCall("CurrentUserStatus", <<>>, ok))
          /\ IF ok THEN SetupGoOn("getProject")
             ELSE SetupErr("getting GitLab user status")
    /\ UNCHANGED <<args, giteaOwner, giteaRepo, tblVars, srcVars, dstVars, calls, runVars>>

\* client.Projects.GetProject(m.args.GitlabProject, nil)
GitlabGetProject ==
    /\ phase = "setup" /\ pc = "getProject"
    /\ \E ok \in BOOLEAN :
          /\ setupCalls' = Append(setupCalls,
                                  SetupCall("GetProject", args.gitlabProject, ok))
          /\ IF ok THEN SetupGoOn("giteaNewClient")
             ELSE SetupErr("getting GitLab project info")
    /\ UNCHANGED <<args, giteaOwner, giteaRepo, tblVars, srcVars, dstVars, calls, runVars>>

\* gitea.NewClient(server, SetToken(token))
GiteaNewClient ==
    /\ phase = "setup" /\ pc = "giteaNewClient"
    /\ \E ok \in BOOLEAN :
          /\ setupCalls' = Append(setupCalls, SetupCall("gitea.NewClient", <<>>, ok))
          /\ IF ok THEN SetupGoOn("getMyUserInfo")
             ELSE SetupErr("creating Gitea client")
    /\ UNCHANGED <<args, giteaOwner, giteaRepo, tblVars, srcVars, dstVars, calls, runVars>>

\* client.GetMyUserInfo()
GiteaGetMyUserInfo ==
    /\ phase = "setup" /\ pc = "getMyUserInfo"
    /\ \E ok \in BOOLEAN :
          /\ setupCalls' = Append(setupCalls, SetupCall("GetMyUserInfo", <<>>, ok))
          /\ IF ok THEN SetupGoOn("getRepo")
             ELSE SetupErr("getting Gitea user info")
    /\ UNCHANGED <<args, giteaOwner, giteaRepo, tblVars, srcVars, dstVars, calls, runVars>>

\* giteaProject of giteaClient: the argument, or the GitLab project if empty
GiteaProject(a) ==
    IF a.giteaProject = EmptyPath THEN a.gitlabProject ELSE a.giteaProject

\* the split of the project name and client.GetRepo(owner, repo)
GiteaGetRepo ==
    /\ phase = "setup" /\ pc = "getRepo"
    /\ LET sl == Split(GiteaProject(args), "/")
       IN IF Len(sl) # 2
          THEN /\ SetupErr("wrong format of Gitea project name")
               /\ UNCHANGED <<setupCalls, giteaOwner, giteaRepo>>
          ELSE /\ giteaOwner' = sl[1]
               /\ giteaRepo' = sl[2]
               /\ \E ok \in BOOLEAN :
                     /\ setupCalls' = Append(setupCalls,
                                             SetupCall("GetRepo", <<sl[1], sl[2]>>, ok))
                     /\ IF ok THEN Enter(FirstPhase, <<>>)
                        ELSE SetupErr("getting Gitea repo info")
    /\ UNCHANGED <<args, tblVars, srcVars, dstVars, calls, runVars>>

\* the command line of the runs that start after construction
DefaultArgs == [gitlabProject |-> <<"o", "/", "r">>, giteaProject |-> EmptyPath]

\* the steps of a newMigrator that returned no error
SetupTrace(a) ==
    << SetupCall("gitlab.NewClient", <<>>, TRUE),
       SetupCall("CurrentUserStatus", <<>>, TRUE),
       SetupCall("GetProject", a.gitlabProject, TRUE),
       SetupCall("gitea.NewClient", <<>>, TRUE),
       SetupCall("GetMyUserInfo", <<>>, TRUE),
       SetupCall("GetRepo", Split(GiteaProject(a), "/"), TRUE) >>

\* the state newMigrator leaves when it returned no error
Constructed(a) ==
    /\ args = a
    /\ setupCalls = SetupTrace(a)
    /\ giteaOwner = Split(GiteaProject(a), "/")[1]
    /\ giteaRepo = Split(GiteaProject(a), "/")[2]

InitControl ==
    /\ Constructed(DefaultArgs)
    /\ phase = FirstPhase
    /\ pc = StartPc(FirstPhase)
    /\ page = 1
    /\ cur = <<>>
    /\ idx = 0
    /\ existingMilestones = EmptyTable
    /\ existingLabels = EmptyTable
    /\ giteaIssues = EmptyTable
    /\ giteaMilestones = EmptyTable
    /\ giteaLabels = EmptyTable
    /\ calls = <<>>
    /\ logs = EnterLog(FirstPhase)
    /\ run = 1
    /\ prev = <<>>
    /\ external = 0

(* ---------------- migrateMilestones ---------------- *)

\* existing, err := m.giteaMilestones()
MilestonesFetch ==
    /\ phase = "milestones" /\ pc = "fetch"
    /\ \E ok \in BOOLEAN :
        LET res == DstPage(DstFilterState(dstMilestones, "all"), UnsetPage)
            arg == [state |-> "all", page |-> UnsetPage]
        IN IF ok
           THEN /\ calls' = Append(calls, Call("ListRepoMilestones", arg, TRUE, res))
                /\ existingMilestones' = MilestoneTable(res)
                /\ pc' = "list"
                /\ UNCHANGED <<phase, loopVars, logs>>
           ELSE /\ calls' = Append(calls, Call("ListRepoMilestones", arg, FALSE, NoResult))
                /\ ReturnErr
                /\ UNCHANGED existingMilestones
    /\ UNCHANGED <<existingLabels, giteaIssues, giteaMilestones, giteaLabels,
                   setupVars, srcVars, dstVars, runVars>>

\* m.gitlab.Milestones.ListMilestones(page, PerPage 100, state active)
MilestonesList ==
    /\ phase = "milestones" /\ pc = "list"
    /\ PageInBound
    /\ \E ok \in BOOLEAN :
        LET res == SrcPage(FilterState(srcMilestones, "active"), ServedPage(page), PerPage, srcCap)
            arg == [page |-> page, perPage |-> PerPage, state |-> "active"]
        IN IF ~ok
           THEN /\ calls' = Append(calls, Call("ListMilestones", arg, FALSE, NoResult))
                /\ ReturnErr
           ELSE /\ calls' = Append(calls, Call("ListMilestones", arg, TRUE, res))
                /\ IF LastPage(res) THEN ReturnNil ELSE StartRange(res)
    /\ UNCHANGED <<tblVars, setupVars, srcVars, dstVars, runVars>>

\* the presence check of migrateMilestones lost
MilestoneExistsNever(existing, m) == FALSE

\* _, ok := existing[milestone.Title]
MilestoneExists(existing, m) == m.title \in DOMAIN existing

\* if ok { continue }
MilestoneSkip ==
    /\ phase = "milestones" /\ pc = "item"
    /\ MilestoneExists(existingMilestones, cur[idx])
    /\ Advance
    /\ UNCHANGED <<tblVars, setupVars, srcVars, dstVars, calls, logs, runVars>>

\* a milestone table that learns the milestones the run creates
MilestoneTableWithCreated(table, created) ==
    [t \in DOMAIN table \cup {created.title} |->
        IF t = created.title THEN created ELSE table[t]]

\* the milestone table after a successful create: migrateMilestones does
\* not write it
MilestoneTableAfterCreate(table, created) == table

\* m.gitea.CreateMilestone(owner, repo, o)
MilestoneCreate ==
    /\ phase = "milestones" /\ pc = "item"
    /\ ~MilestoneExists(existingMilestones, cur[idx])
    /\ LET o == CreateMilestoneOption(cur[idx])
       IN \E ok \in BOOLEAN :
           IF ok
           THEN /\ dstMilestones' = ServerCreateMilestone(dstMilestones, o)
                /\ existingMilestones' =
                      MilestoneTableAfterCreate(existingMilestones,
                                                dstMilestones'[Len(dstMilestones')])
                /\ calls' = Append(calls, Call("CreateMilestone", o, TRUE, NoResult))
                /\ logs' = Append(logs, [level |-> "info", msg |-> "Created milestone",
                                         value |-> o.title])
                /\ Advance
           ELSE /\ calls' = Append(calls, Call("CreateMilestone", o, FALSE, NoResult))
                /\ ReturnErr
                /\ UNCHANGED <<dstMilestones, existingMilestones>>
    /\ UNCHANGED <<existingLabels, giteaIssues, giteaMilestones, giteaLabels,
                   setupVars, srcVars, dstLabels, dstIssues, runVars>>


(* ---------------- migrateLabels ---------------- *)

\* existing, err := m.giteaLabels()
LabelsFetch ==
    /\ phase = "labels" /\ pc = "fetch"
    /\ \E ok \in BOOLEAN :
        LET res == DstPage(dstLabels, UnsetPage)
            arg == [page |-> UnsetPage]
        IN IF ok
           THEN /\ calls' = Append(calls, Call("ListRepoLabels", arg, TRUE, res))
                /\ existingLabels' = LabelTable(res)
                /\ pc' = "list"
                /\ UNCHANGED <<phase, loopVars, logs>>
           ELSE /\ calls' = Append(calls, Call("ListRepoLabels", arg, FALSE, NoResult))
                /\ ReturnErr
                /\ UNCHANGED existingLabels
    /\ UNCHANGED <<existingMilestones, giteaIssues, giteaMilestones, giteaLabels,
                   setupVars, srcVars, dstVars, runVars>>

\* m.gitlab.Labels.ListLabels(page, PerPage 100)
LabelsList ==
    /\ phase = "labels" /\ pc = "list"
    /\ PageInBound
    /\ \E ok \in BOOLEAN :
        LET res == SrcPage(srcLabels, ServedPage(page), PerPage, srcCap)
            arg == [page |-> page, perPage |-> PerPage]
        IN IF ~ok
           THEN /\ calls' = Append(calls, Call("ListLabels", arg, FALSE, NoResult))
                /\ ReturnErr
           ELSE /\ calls' = Append(calls, Call("ListLabels", arg, TRUE, res))
                /\ IF LastPage(res) THEN ReturnNil ELSE StartRange(res)
    /\ UNCHANGED <<tblVars, setupVars, srcVars, dstVars, runVars>>

\* the presence check of migrateLabels always finding the name
LabelExistsAlways(existing, l) == TRUE

\* _, ok := existing[label.Name]
LabelExists(existing, l) == l.name \in DOMAIN existing

\* if ok { continue }
LabelSkip ==
    /\ phase = "labels" /\ pc = "item"
    /\ LabelExists(existingLabels, cur[idx])
    /\ Advance
    /\ UNCHANGED <<tblVars, setupVars, srcVars, dstVars, calls, logs, runVars>>

\* m.gitea.CreateLabel(owner, repo, o)
LabelCreate ==
    /\ phase = "labels" /\ pc = "item"
    /\ ~LabelExists(existingLabels, cur[idx])
    /\ LET o == CreateLabelOption(cur[idx])
       IN \E ok \in BOOLEAN :
           IF ok
           THEN /\ dstLabels' = ServerCreateLabel(dstLabels, o)
                /\ calls' = Append(calls, Call("CreateLabel", o, TRUE, NoResult))
                /\ logs' = Append(logs, [level |-> "info", msg |-> "Created label",
                                         value |-> o.name])
                /\ Advance
           ELSE /\ calls' = Append(calls, Call("CreateLabel", o, FALSE, NoResult))
                /\ ReturnErr
                /\ UNCHANGED dstLabels
    /\ UNCHANGED <<tblVars, setupVars, srcVars, dstMilestones, dstIssues, runVars>>

(* ---------------- migrateIssues ---------------- *)

\* one iteration of the paging loop of giteaIssues()
IssuesFetchIssues ==
    /\ phase = "issues" /\ pc = "fetchIssues"
    /\ DstPageInBound
    /\ \E ok \in BOOLEAN :
        LET res == DstPage(DstFilterState(dstIssues, "all"), DstServedPage(page))
            arg == [state |-> "all", page |-> page]
        IN IF ~ok
           THEN /\ calls' = Append(calls, Call("ListRepoIssues", arg, FALSE, NoResult))
                /\ ReturnErr
                /\ UNCHANGED giteaIssues
           ELSE /\ calls' = Append(calls, Call("ListRepoIssues", arg, TRUE, res))
                /\ IF LastPage(res)
                   THEN /\ pc' = "fetchMilestones"
                        /\ page' = 1
                        /\ UNCHANGED giteaIssues
                   ELSE /\ giteaIssues' = IssueTablePut(giteaIssues, res)
                        /\ page' = NextPageNo(page)
                        /\ UNCHANGED pc
                /\ UNCHANGED <<phase, cur, idx, logs>>
    /\ UNCHANGED <<existingMilestones, existingLabels, giteaMilestones, giteaLabels,
                   setupVars, srcVars, dstVars, runVars>>

\* giteaMilestones, err := m.giteaMilestones()
IssuesFetchMilestones ==
    /\ phase = "issues" /\ pc = "fetchMilestones"
    /\ \E ok \in BOOLEAN :
        LET res == DstPage(DstFilterState(dstMilestones, "all"), UnsetPage)
            arg == [state |-> "all", page |-> UnsetPage]
        IN IF ok
           THEN /\ calls' = Append(calls, Call("ListRepoMilestones", arg, TRUE, res))
                /\ giteaMilestones' = MilestoneTable(res)
                /\ pc' = "fetchLabels"
                /\ UNCHANGED <<phase, loopVars, logs>>
           ELSE /\ calls' = Append(calls, Call("ListRepoMilestones", arg, FALSE, NoResult))
                /\ ReturnErr
                /\ UNCHANGED giteaMilestones
    /\ UNCHANGED <<existingMilestones, existingLabels, giteaIssues, giteaLabels,
                   setupVars, srcVars, dstVars, runVars>>

\* giteaLabels, err := m.giteaLabels()
IssuesFetchLabels ==
    /\ phase = "issues" /\ pc = "fetchLabels"
    /\ \E ok \in BOOLEAN :
        LET res == DstPage(dstLabels, UnsetPage)
            arg == [page |-> UnsetPage]
        IN IF ok
           THEN /\ calls' = Append(calls, Call("ListRepoLabels", arg, TRUE, res))
                /\ giteaLabels' = LabelTable(res)
                /\ pc' = "list"
                /\ UNCHANGED <<phase, loopVars, logs>>
           ELSE /\ calls' = Append(calls, Call("ListRepoLabels", arg, FALSE, NoResult))
                /\ ReturnErr
                /\ UNCHANGED giteaLabels
    /\ UNCHANGED <<existingMilestones, existingLabels, giteaIssues, giteaMilestones,
                   setupVars, srcVars, dstVars, runVars>>

\* m.gitlab.Issues.ListProjectIssues(page, PerPage 100, state opened)
IssuesList ==
    /\ phase = "issues" /\ pc = "list"
    /\ PageInBound
    /\ \E ok \in BOOLEAN :
        LET res == SrcPage(FilterState(srcIssues, "opened"), ServedPage(page), PerPage, srcCap)
            arg == [page |-> page, perPage |-> PerPage, state |-> "opened"]
        IN IF ~ok
           THEN /\ calls' = Append(calls, Call("ListProjectIssues", arg, FALSE, NoResult))
                /\ ReturnErr
           ELSE /\ calls' = Append(calls, Call("ListProjectIssues", arg, TRUE, res))
                /\ IF LastPage(res) THEN ReturnNil ELSE StartRange(res)
    /\ UNCHANGED <<tblVars, setupVars, srcVars, dstVars, runVars>>

(* ---------------- migrateIssue ---------------- *)

\* the lookup of migrateIssue never finding the title
IssueExistsNever(table, issue) == FALSE

\* existing, ok := giteaIssues[issue.Title]
IssueExists(table, issue) == issue.title \in DOMAIN table

\* the update addressed to the issue after the existing one
ExistingIndexOff(table, issue) == table[issue.title].index + 1

\* the update addressed to the issue before the existing one
ExistingIndexBefore(table, issue) == table[issue.title].index - 1

\* existing.Index
ExistingIndex(table, issue) == table[issue.title].index

\* the payload of the issue the range loop is at
CurOption == CreateIssueOption(cur[idx], giteaMilestones, giteaLabels)

\* an issue table that learns the issues the run creates
IssueTableWithCreated(table, created) ==
    [t \in DOMAIN table \cup {created.title} |->
        IF t = created.title THEN created ELSE table[t]]

\* the issue table after a successful create: migrateIssue does not write it
IssueTableAfterCreate(table, created) == table

\* !ok: m.gitea.CreateIssue(owner, repo, o)
IssueCreate ==
    /\ phase = "issues" /\ pc = "item"
    /\ ~IssueExists(giteaIssues, cur[idx])
    /\ LET o == CurOption
           w == IssueWarnings(cur[idx], giteaMilestones, giteaLabels)
       IN IF UpToExit(w) # w
          THEN /\ Enter("failed", UpToExit(w))
               /\ UNCHANGED <<calls, dstIssues, giteaIssues>>
          ELSE \E ok \in BOOLEAN :
           IF ok
           THEN /\ dstIssues' = ServerCreateIssue(dstIssues, o)
                /\ giteaIssues' = IssueTableAfterCreate(giteaIssues,
                                                        dstIssues'[Len(dstIssues')])
                /\ calls' = Append(calls, Call("CreateIssue", o, TRUE, NoResult))
                /\ logs' = logs \o w \o <<[level |-> "info", msg |-> "Created issue",
                                           value |-> o.title]>>
                /\ Advance
           ELSE /\ calls' = Append(calls, Call("CreateIssue", o, FALSE, NoResult))
                /\ Enter(ErrorExit(phase),
                         w \o <<[level |-> "fatal", msg |-> "Migrating the project failed",
                                 value |-> ErrorPrefix(phase)]>>)
                /\ UNCHANGED <<dstIssues, giteaIssues>>
    /\ UNCHANGED <<existingMilestones, existingLabels, giteaMilestones, giteaLabels,
                   setupVars, srcVars, dstMilestones, dstLabels, runVars>>

\* ok: m.gitea.EditIssue(owner, repo, existing.Index, editOptions)
IssueEdit ==
    /\ phase = "issues" /\ pc = "item"
    /\ IssueExists(giteaIssues, cur[idx])
    /\ LET o == CurOption
           w == IssueWarnings(cur[idx], giteaMilestones, giteaLabels)
           index == ExistingIndex(giteaIssues, cur[idx])
           arg == [index |-> index, opt |-> EditIssueOption(o)]
       IN IF UpToExit(w) # w
          THEN /\ Enter("failed", UpToExit(w))
               /\ UNCHANGED <<calls, dstIssues>>
          ELSE \E ok \in BOOLEAN :
           IF ok
           THEN /\ dstIssues' = ServerEditIssue(dstIssues, index, EditIssueOption(o))
                /\ calls' = Append(calls, Call("EditIssue", arg, TRUE, NoResult))
                /\ logs' = logs \o w
                /\ pc' = "labels"
                /\ UNCHANGED <<phase, loopVars>>
           ELSE /\ calls' = Append(calls, Call("EditIssue", arg, FALSE, NoResult))
                /\ Enter(ErrorExit(phase),
                         w \o <<[level |-> "fatal", msg |-> "Migrating the project failed",
                                 value |-> ErrorPrefix(phase)]>>)
                /\ UNCHANGED dstIssues
    /\ UNCHANGED <<tblVars, setupVars, srcVars, dstMilestones, dstLabels, runVars>>

\* m.gitea.ReplaceIssueLabels(owner, repo, existing.Index, labelOptions)
IssueReplaceLabels ==
    /\ phase = "issues" /\ pc = "labels"
    /\ LET o == CurOption
           index == ExistingIndex(giteaIssues, cur[idx])
           arg == [index |-> index, opt |-> IssueLabelsOption(o)]
       IN \E ok \in BOOLEAN :
           IF ok
           THEN /\ dstIssues' = ServerReplaceIssueLabels(dstIssues, index, IssueLabelsOption(o).labels)
                /\ calls' = Append(calls, Call("ReplaceIssueLabels", arg, TRUE, NoResult))
                /\ logs' = Append(logs, [level |-> "info", msg |-> "Updated issue",
                                         value |-> o.title])
                /\ Advance
           ELSE /\ calls' = Append(calls, Call("ReplaceIssueLabels", arg, FALSE, NoResult))
                /\ ReturnErr
                /\ UNCHANGED dstIssues
    /\ UNCHANGED <<tblVars, setupVars, srcVars, dstMilestones, dstLabels, runVars>>


(* ---------------- running the tool again ---------------- *)

\* the tool is started again on the same pair of projects after a run ended
Rerun ==
    /\ phase \in {"done", "failed"}
    /\ run < MaxRuns
    /\ run' = run + 1
    /\ prev' = Append(prev, [outcome |-> phase, calls |-> calls,
                             dstMilestones |-> dstMilestones,
                             dstLabels |-> dstLabels,
                             dstIssues |-> dstIssues])
    /\ phase' = FirstPhase
    /\ pc' = StartPc(FirstPhase)
    /\ page' = 1
    /\ cur' = <<>>
    /\ idx' = 0
    /\ existingMilestones' = EmptyTable
    /\ existingLabels' = EmptyTable
    /\ giteaIssues' = EmptyTable
    /\ giteaMilestones' = EmptyTable
    /\ giteaLabels' = EmptyTable
    /\ calls' = <<>>
    /\ logs' = EnterLog(FirstPhase)
    /\ UNCHANGED <<setupVars, srcVars, dstVars>>

(* ---------------- inputs ---------------- *)

SrcMilestone(t, d, due, st) == [title |-> t, description |-> d, dueDate |-> due, state |-> st]
SrcLabel(n, d, c) == [name |-> n, description |-> d, color |-> c]
SrcIssue(t, d, due, m, ls, st) ==
    [title |-> t, description |-> d, dueDate |-> due, milestone |-> m,
     labels |-> ls, state |-> st]

\* GitLab milestones the small scenarios draw from
SrcMilestoneSet ==
    { SrcMilestone("v1", "d1", NoDate, "active"),
      SrcMilestone("v2", "d2", 7, "active"),
      SrcMilestone("v0", "d0", 5, "closed") }

\* GitLab labels the small scenarios draw from
SrcLabelSet ==
    { SrcLabel("bug", "b", "#ff0000"),
      SrcLabel("ui", "u", "#00ff00") }

\* GitLab issues the small scenarios draw from
SrcIssueSet ==
    { SrcIssue("A", "a1", NoDate, NoMilestone, <<>>, "opened"),
      SrcIssue("B", "b1", 9, "v1", <<"bug", "ui">>, "opened"),
      SrcIssue("A", "a2", 4, "v2", <<"ui">>, "opened"),
      SrcIssue("C", "c1", NoDate, "v0", <<"bug">>, "closed") }

\* a Gitea listing with the given titles; ids and indexes are the server's
DstMilestonesOf(titles) ==
    [i \in DOMAIN titles |->
        [id |-> 10 + i, title |-> titles[i], description |-> "old",
         deadline |-> 3, state |-> IF i % 2 = 1 THEN "closed" ELSE "open"]]

DstLabelsOf(names) ==
    [i \in DOMAIN names |->
        [id |-> 20 + i, name |-> names[i], description |-> "old",
         color |-> "#000000"]]

DstIssuesOf(titles) ==
    [i \in DOMAIN titles |->
        [index |-> 40 + i, title |-> titles[i], body |-> "old",
         deadline |-> 3, milestone |-> 11, labels |-> <<21>>,
         state |-> IF i % 2 = 1 THEN "closed" ELSE "open"]]

DstMilestoneTitles == {"v1", "x"}
DstLabelNames == {"bug", "y"}
DstIssueTitles == {"A", "X"}

\* the inputs of one kind are drawn from the whole bounded set when the
\* scenario varies that kind, and are the fixed ones below otherwise
FixedSrcMilestones == << SrcMilestone("v1", "d1", NoDate, "active") >>
FixedSrcLabels == << SrcLabel("bug", "b", "#ff0000"), SrcLabel("ui", "u", "#00ff00") >>
FixedSrcIssues == << SrcIssue("A", "a1", NoDate, NoMilestone, <<>>, "opened"),
                     SrcIssue("B", "b1", 9, "v1", <<"bug", "ui">>, "opened") >>
FixedDstMilestones == DstMilestonesOf(<<"x">>)
FixedDstLabels == DstLabelsOf(<<"bug">>)
FixedDstIssues == DstIssuesOf(<<"A">>)

Kinds == {"milestones", "labels", "issues"}

InitInputs(varied) ==
    /\ srcCap \in 1..MaxSrcCap
    /\ srcMilestones \in IF varied = "milestones"
                         THEN SeqsUpTo(SrcMilestoneSet, MaxSrcMilestones)
                         ELSE {FixedSrcMilestones}
    /\ dstMilestones \in IF varied = "milestones"
                         THEN { DstMilestonesOf(t) : t \in SeqsUpTo(DstMilestoneTitles, MaxDstMilestones) }
                         ELSE {FixedDstMilestones}
    /\ srcLabels \in IF varied = "labels"
                     THEN SeqsUpTo(SrcLabelSet, MaxSrcLabels)
                     ELSE {FixedSrcLabels}
    /\ dstLabels \in IF varied = "labels"
                     THEN { DstLabelsOf(t) : t \in SeqsUpTo(DstLabelNames, MaxDstLabels) }
                     ELSE {FixedDstLabels}
    /\ srcIssues \in IF varied = "issues"
                     THEN SeqsUpTo(SrcIssueSet, MaxSrcIssues)
                     ELSE {FixedSrcIssues}
    /\ dstIssues \in IF varied = "issues"
                     THEN { DstIssuesOf(t) : t \in SeqsUpTo(DstIssueTitles, MaxDstIssues) }
                     ELSE {FixedDstIssues}

\* the pagination scenario: 237 active milestones on a GitLab server that
\* serves the 100 items per page the code asks for, none of them but the
\* first at the destination
ScenarioPageSizes == <<100, 100, 37>>

ScenarioMilestones ==
    [i \in 1..(ScenarioPageSizes[1] + ScenarioPageSizes[2] + ScenarioPageSizes[3]) |->
        SrcMilestone(ToString(i), "d", NoDate, "active")]

InitScenario ==
    /\ srcCap = PerPage
    /\ srcMilestones = ScenarioMilestones
    /\ dstMilestones = DstMilestonesOf(<<"1">>)
    /\ srcLabels = FixedSrcLabels
    /\ dstLabels = FixedDstLabels
    /\ srcIssues = FixedSrcIssues
    /\ dstIssues = FixedDstIssues

Init ==
    /\ InitControl
    /\ srcEndless = FALSE
    /\ dstEndless = FALSE
    /\ \/ \E varied \in Kinds : InitInputs(varied)
       \/ InitScenario

\* the re-run scenarios: the fixed source, and each destination listing
\* either empty or holding one full page of unrelated entities
FullPageOf(t) == [i \in 1..DstPageSize |-> t]

InitRerun ==
    /\ InitControl
    /\ srcEndless = FALSE
    /\ dstEndless = FALSE
    /\ srcCap \in 1..MaxSrcCap
    /\ srcMilestones = FixedSrcMilestones
    /\ srcLabels = FixedSrcLabels
    /\ srcIssues = FixedSrcIssues
    /\ dstMilestones \in { DstMilestonesOf(<<>>), DstMilestonesOf(FullPageOf("x")) }
    /\ dstLabels \in { DstLabelsOf(<<>>), DstLabelsOf(FullPageOf("y")) }
    /\ dstIssues \in { DstIssuesOf(<<>>), DstIssuesOf(FullPageOf("X")) }

\* the runs that start with newMigrator: every command line of the bounded
\* sets, on one pair of projects that has something to skip, to create and
\* to update in every phase
PathChars == {"o", "r", "/"}

GitlabProjects == { <<"o", "/", "r">>, <<"o", "/", "s", "/", "r">> }

ArgSet ==
    [gitlabProject : GitlabProjects, giteaProject : SeqsUpTo(PathChars, MaxPathLen)]

InitSetup ==
    /\ phase = "setup"
    /\ pc = "gitlabNewClient"
    /\ page = 1
    /\ cur = <<>>
    /\ idx = 0
    /\ existingMilestones = EmptyTable
    /\ existingLabels = EmptyTable
    /\ giteaIssues = EmptyTable
    /\ giteaMilestones = EmptyTable
    /\ giteaLabels = EmptyTable
    /\ calls = <<>>
    /\ logs = <<>>
    /\ run = 1
    /\ prev = <<>>
    /\ external = 0
    /\ args \in ArgSet
    /\ setupCalls = <<>>
    /\ giteaOwner = EmptyPath
    /\ giteaRepo = EmptyPath
    /\ srcEndless = FALSE
    /\ dstEndless = FALSE
    /\ srcCap \in 1..MaxSrcCap
    /\ srcMilestones = << SrcMilestone("v1", "d1", NoDate, "active"),
                          SrcMilestone("v2", "d2", 7, "active") >>
    /\ dstMilestones = DstMilestonesOf(<<"v1">>)
    /\ srcLabels = FixedSrcLabels
    /\ dstLabels = FixedDstLabels
    /\ srcIssues = FixedSrcIssues
    /\ dstIssues = FixedDstIssues

(* ---------------- specification ---------------- *)

Next ==
    \/ MilestonesFetch
    \/ MilestonesList
    \/ MilestoneSkip
    \/ MilestoneCreate
    \/ LabelsFetch
    \/ LabelsList
    \/ LabelSkip
    \/ LabelCreate
    \/ IssuesFetchIssues
    \/ IssuesFetchMilestones
    \/ IssuesFetchLabels
    \/ IssuesList
    \/ IssueCreate
    \/ IssueEdit
    \/ IssueReplaceLabels

Spec == Init /\ [][Next]_vars

NextSetup ==
    \/ GitlabNewClient
    \/ GitlabCurrentUserStatus
    \/ GitlabGetProject
    \/ GiteaNewClient
    \/ GiteaGetMyUserInfo
    \/ GiteaGetRepo
    \/ Next

SpecSetup == InitSetup /\ [][NextSetup]_vars

(* ---------------- runs that take every step they can ---------------- *)

\* the runs on a GitLab server and on a Gitea server each of which pages
\* properly or serves its first page for every page number
InitLive ==
    /\ InitControl
    /\ srcEndless \in BOOLEAN
    /\ dstEndless \in BOOLEAN
    /\ srcCap \in 1..MaxSrcCap
    /\ srcMilestones \in { <<>>, << SrcMilestone("v1", "d1", NoDate, "active"),
                                    SrcMilestone("v2", "d2", 7, "active") >> }
    /\ dstMilestones = DstMilestonesOf(<<"v1">>)
    /\ srcLabels \in { <<>>, FixedSrcLabels }
    /\ dstLabels = FixedDstLabels
    /\ srcIssues \in { <<>>, FixedSrcIssues }
    /\ dstIssues = FixedDstIssues

\* every remote call returns: a run that can take a step takes one
SpecLive == InitLive /\ [][Next]_vars /\ WF_vars(Next)

(* ---------------- another actor writing to the Gitea repository ---------------- *)

\* what marks the entities the other actor created
ExternalMark == "external"

\* the entities the other actor has created so far (the run may overwrite
\* the body of such an issue, so they are counted, not recognised)
ExternalWrites == external

\* the run is in one of its phases and the other actor may still write
ExternalMayWrite ==
    /\ phase \in {"milestones", "labels", "issues"}
    /\ ExternalWrites < MaxExternal

\* the other actor creates a milestone titled like a source milestone
ExternalCreateMilestone ==
    /\ ExternalMayWrite
    /\ \E t \in {srcMilestones[i].title : i \in DOMAIN srcMilestones} :
          dstMilestones' = ServerCreateMilestone(dstMilestones,
                              [title |-> t, description |-> ExternalMark,
                               deadline |-> NoDate])
    /\ external' = external + 1
    /\ UNCHANGED <<phase, pc, loopVars, tblVars, srcMilestones, srcLabels, srcIssues,
                   srcCap, srcEndless, dstEndless, dstLabels, dstIssues, calls, logs, runVars, setupVars>>

\* the other actor creates a label named like a source label
ExternalCreateLabel ==
    /\ ExternalMayWrite
    /\ \E n \in {srcLabels[i].name : i \in DOMAIN srcLabels} :
          dstLabels' = ServerCreateLabel(dstLabels,
                          [name |-> n, description |-> ExternalMark,
                           color |-> "#000000"])
    /\ external' = external + 1
    /\ UNCHANGED <<phase, pc, loopVars, tblVars, srcMilestones, srcLabels, srcIssues,
                   srcCap, srcEndless, dstEndless, dstMilestones, dstIssues, calls, logs, runVars, setupVars>>

\* the other actor creates an issue titled like a source issue
ExternalCreateIssue ==
    /\ ExternalMayWrite
    /\ \E t \in {srcIssues[i].title : i \in DOMAIN srcIssues} :
          dstIssues' = ServerCreateIssue(dstIssues,
                          [title |-> t, body |-> ExternalMark, deadline |-> NoDate,
                           milestone |-> NoID, labels |-> <<>>])
    /\ external' = external + 1
    /\ UNCHANGED <<phase, pc, loopVars, tblVars, srcMilestones, srcLabels, srcIssues,
                   srcCap, srcEndless, dstEndless, dstMilestones, dstLabels, calls, logs, runVars, setupVars>>

\* the runs with another actor: one source with unique titles, and a
\* destination whose milestones and labels fit on one listing page or not
InitExternal ==
    /\ InitControl
    /\ srcEndless = FALSE
    /\ dstEndless = FALSE
    /\ srcCap \in 1..MaxSrcCap
    /\ srcMilestones = << SrcMilestone("v1", "d1", NoDate, "active"),
                          SrcMilestone("v2", "d2", 7, "active") >>
    /\ dstMilestones \in { DstMilestonesOf(<<"v1">>),
                            DstMilestonesOf(<<"x", "y", "v2">>) }
    /\ srcLabels = FixedSrcLabels
    /\ dstLabels \in { DstLabelsOf(<<"bug">>), DstLabelsOf(<<"x", "y", "ui">>) }
    /\ srcIssues = FixedSrcIssues
    /\ dstIssues \in { DstIssuesOf(<<"A">>), DstIssuesOf(<<"X", "Y", "A">>) }

NextExternal ==
    \/ ExternalCreateMilestone
    \/ ExternalCreateLabel
    \/ ExternalCreateIssue
    \/ Next

SpecExternal == InitExternal /\ [][NextExternal]_vars


(* ---------------- reading the call log ---------------- *)

\* the calls of `cs` whose operation is in ops
CallsTo(cs, ops) == SelectSeq(cs, LAMBDA c : c.op \in ops)

\* the successful calls to `op` among cs
OkCalls(cs, op) == SelectSeq(cs, LAMBDA c : c.op = op /\ c.ok)

\* the items of all successful responses to `op`, in order
ItemsReturned(cs, op) ==
    LET sel == OkCalls(cs, op) IN Flatten([i \in DOMAIN sel |-> sel[i].res])

\* the arguments of the calls to `op`, in order
ArgsOf(cs, op) == LET sel == CallsTo(cs, {op}) IN [i \in DOMAIN sel |-> sel[i].arg]

LastCall == calls[Len(calls)]

\* call i is the successful empty page that makes the paging loop of `op` return nil
IsEmptyPage(c, op) == c.op = op /\ c.ok /\ Len(c.res) = 0

(* ---------------- C1 ---------------- *)

\* C1: the phases run in the order milestones, labels, issues: the first
\* remote call of a run belongs to the milestone phase, the calls of a later
\* phase only start right after the paging loop of the phase before returned
\* nil (its empty page arrived without error), and no call of an earlier
\* phase follows a call of a later one.
C1_PhaseOrder ==
    /\ calls # <<>> => calls[1].phase = "milestones"
    /\ \A i \in 1..(Len(calls) - 1) :
         calls[i].phase # calls[i + 1].phase =>
            \/ /\ calls[i].phase = "milestones"
               /\ calls[i + 1].phase = "labels"
               /\ IsEmptyPage(calls[i], "ListMilestones")
            \/ /\ calls[i].phase = "labels"
               /\ calls[i + 1].phase = "issues"
               /\ IsEmptyPage(calls[i], "ListLabels")
    /\ phase = "labels" => /\ calls # <<>>
                           /\ IsEmptyPage(LastCall, "ListMilestones") \/ LastCall.phase = "labels"
    /\ phase = "issues" => /\ calls # <<>>
                           /\ IsEmptyPage(LastCall, "ListLabels") \/ LastCall.phase = "issues"

\* a finished run that issued remote calls in all three phases
C1_Witness ==
    /\ phase = "done"
    /\ \E i \in DOMAIN calls : calls[i].phase = "milestones" /\ calls[i].op = "CreateMilestone"
    /\ \E i \in DOMAIN calls : calls[i].phase = "labels" /\ calls[i].op = "CreateLabel"
    /\ \E i \in DOMAIN calls : calls[i].phase = "issues" /\ calls[i].op = "ListRepoIssues"

(* ---------------- C2 ---------------- *)

\* the paging loop of every phase returned nil
AllPhasesReturnedNil ==
    /\ \E i \in DOMAIN calls : IsEmptyPage(calls[i], "ListMilestones")
    /\ \E i \in DOMAIN calls : IsEmptyPage(calls[i], "ListLabels")
    /\ \E i \in DOMAIN calls : IsEmptyPage(calls[i], "ListProjectIssues")

\* C2: a remote call that returns an error is the last remote call of the
\* run (no retry, no later item, page or phase), the run is then Failed, a
\* run is Failed only after such a call, and a run is Done only if no call
\* failed and all three phases returned nil.
C2_FirstErrorIsLast ==
    /\ \A i \in 1..(Len(calls) - 1) : calls[i].ok
    /\ (calls # <<>> /\ ~LastCall.ok) => phase = "failed"
    /\ phase = "failed" => (calls # <<>> /\ ~LastCall.ok)
    /\ phase = "done" => /\ \A i \in DOMAIN calls : calls[i].ok
                         /\ AllPhasesReturnedNil

\* a run that failed in the issue phase after successful creates
C2_Witness ==
    /\ phase = "failed"
    /\ LastCall.op = "ReplaceIssueLabels"
    /\ \E i \in DOMAIN calls : calls[i].op = "CreateMilestone" /\ calls[i].ok

(* ---------------- C3 ---------------- *)

\* the create payloads the claim expects for the source items `items`
\* against the key set `keys`
ExpectedMilestoneCreates(items, keys) ==
    LET absent == SelectSeq(items, LAMBDA m : m.title \notin keys)
    IN [i \in DOMAIN absent |->
           [title |-> absent[i].title, description |-> absent[i].description,
            deadline |-> absent[i].dueDate]]

ExpectedLabelCreates(items, keys) ==
    LET absent == SelectSeq(items, LAMBDA l : l.name \notin keys)
    IN [i \in DOMAIN absent |->
           [name |-> absent[i].name, description |-> absent[i].description,
            color |-> absent[i].color]]

MilestonesStreamed == ItemsReturned(calls, "ListMilestones")
LabelsStreamed == ItemsReturned(calls, "ListLabels")
IssuesStreamed == ItemsReturned(calls, "ListProjectIssues")

MilestonePhaseReturned == \E i \in DOMAIN calls : IsEmptyPage(calls[i], "ListMilestones")
LabelPhaseReturned == \E i \in DOMAIN calls : IsEmptyPage(calls[i], "ListLabels")
IssuePhaseReturned == \E i \in DOMAIN calls : IsEmptyPage(calls[i], "ListProjectIssues")

\* C3: create-if-absent.  The create calls of the milestone (label) phase
\* are, in order, one call with the item's title/description/deadline
\* (name/description/color) for each streamed source item whose title (name)
\* is not a key of the table fetched at the start of the phase, and none for
\* an item whose title (name) is a key: always a prefix of that list, and the
\* whole list once the phase has returned nil.
C3_CreateIfAbsent ==
    LET mExp == ExpectedMilestoneCreates(MilestonesStreamed, DOMAIN existingMilestones)
        mGot == ArgsOf(calls, "CreateMilestone")
        lExp == ExpectedLabelCreates(LabelsStreamed, DOMAIN existingLabels)
        lGot == ArgsOf(calls, "CreateLabel")
    IN /\ IsPrefix(mGot, mExp)
       /\ IsPrefix(lGot, lExp)
       /\ MilestonePhaseReturned => mGot = mExp
       /\ LabelPhaseReturned => lGot = lExp
       /\ \A i \in DOMAIN mGot : mGot[i].title \notin DOMAIN existingMilestones
       /\ \A i \in DOMAIN lGot : lGot[i].name \notin DOMAIN existingLabels

\* a milestone phase that skipped an existing title and created an absent one
C3_Witness ==
    /\ MilestonePhaseReturned
    /\ \E i \in DOMAIN MilestonesStreamed : MilestonesStreamed[i].title \in DOMAIN existingMilestones
    /\ \E i \in DOMAIN calls : calls[i].op = "CreateMilestone" /\ calls[i].ok
                               /\ calls[i].arg.deadline # NoDate


(* ---------------- C4 ---------------- *)

\* number of create calls issued for title / name t
MilestoneCreatesFor(t) == Count(ArgsOf(calls, "CreateMilestone"), LAMBDA o : o.title = t)
LabelCreatesFor(t) == Count(ArgsOf(calls, "CreateLabel"), LAMBDA o : o.name = t)

\* number of times t occurs in the source listing the phase streams
MilestoneListed(t) == Count(FilterState(srcMilestones, "active"), LAMBDA m : m.title = t)
LabelListed(t) == Count(srcLabels, LAMBDA l : l.name = t)

MilestoneTitlesSeen == { srcMilestones[i].title : i \in DOMAIN srcMilestones }
LabelNamesSeen == { srcLabels[i].name : i \in DOMAIN srcLabels }

\* C4 as claimed: at most one create call per milestone title and per label
\* name in a run, also when the source lists a title or name more than once.
C4_AtMostOneCreate ==
    /\ \A t \in MilestoneTitlesSeen : MilestoneCreatesFor(t) <= 1
    /\ \A t \in LabelNamesSeen : LabelCreatesFor(t) <= 1

\* C4 as amended: the number of create calls for a milestone title or label
\* name never exceeds the number of times the source listing holds it (so it
\* is at most one for a title or name listed once, whatever the pages are).
C4_CreatesBoundedByListing ==
    /\ \A t \in MilestoneTitlesSeen : MilestoneCreatesFor(t) <= MilestoneListed(t)
    /\ \A t \in LabelNamesSeen : LabelCreatesFor(t) <= LabelListed(t)
    /\ \A i \in DOMAIN calls :
         /\ calls[i].op = "CreateMilestone" => calls[i].arg.title \in MilestoneTitlesSeen
         /\ calls[i].op = "CreateLabel" => calls[i].arg.name \in LabelNamesSeen

\* a title listed once and created once next to a title listed twice, on two
\* pages, and created twice
C4_Witness ==
    /\ LabelPhaseReturned
    /\ srcCap = 1
    /\ \E t \in LabelNamesSeen : LabelListed(t) = 2 /\ LabelCreatesFor(t) = 2
    /\ \E t \in MilestoneTitlesSeen : MilestoneListed(t) = 1 /\ MilestoneCreatesFor(t) = 1


(* ---------------- C5 ---------------- *)

IssueMutations == {"CreateIssue", "EditIssue", "ReplaceIssueLabels"}

\* a mutating call of the issue phase reduced to what it is and what it addresses
Addressed(c) ==
    [op |-> c.op,
     title |-> IF c.op = "CreateIssue" THEN c.arg.title ELSE "",
     index |-> IF c.op = "CreateIssue" THEN 0 ELSE c.arg.index]

\* the calls the claim expects for the streamed issues `items` against `table`
RECURSIVE ExpectedIssueCalls(_, _)
ExpectedIssueCalls(items, table) ==
    IF items = <<>> THEN <<>>
    ELSE LET t == Head(items).title
         IN (IF t \in DOMAIN table
             THEN << [op |-> "EditIssue", title |-> "", index |-> table[t].index],
                     [op |-> "ReplaceIssueLabels", title |-> "", index |-> table[t].index] >>
             ELSE << [op |-> "CreateIssue", title |-> t, index |-> 0] >>)
            \o ExpectedIssueCalls(Tail(items), table)

IssueCallsIssued ==
    LET sel == CallsTo(calls, IssueMutations)
    IN [i \in DOMAIN sel |-> Addressed(sel[i])]

\* C5: create-or-update.  The mutating calls of the issue phase are, issue by
\* issue in streamed order, one CreateIssue for an issue whose title is not a
\* key of the destination issue table, and one EditIssue followed by one
\* ReplaceIssueLabels, both addressed to the index of the table entry, for an
\* issue whose title is a key: always a prefix of that list (a failed call
\* ends the run), and the whole list once the phase has returned nil.
C5_CreateOrUpdate ==
    LET exp == ExpectedIssueCalls(IssuesStreamed, giteaIssues)
    IN /\ IsPrefix(IssueCallsIssued, exp)
       /\ IssuePhaseReturned => IssueCallsIssued = exp
       /\ \A i \in DOMAIN calls :
            calls[i].op = "EditIssue" =>
               \E t \in DOMAIN giteaIssues :
                  /\ giteaIssues[t].index = calls[i].arg.index
                  /\ calls[i].arg.opt.title = t

\* a finished issue phase that created one issue and updated another one
C5_Witness ==
    /\ phase = "done"
    /\ \E i \in DOMAIN calls : calls[i].op = "CreateIssue"
    /\ \E i \in DOMAIN calls : calls[i].op = "ReplaceIssueLabels" /\ calls[i].arg.index = 42

(* ---------------- C6 ---------------- *)

\* the destination issue with the given index
DstIssueAt(index) ==
    dstIssues[CHOOSE i \in DOMAIN dstIssues : dstIssues[i].index = index]

\* C6 as claimed: right after a successful update (EditIssue then
\* ReplaceIssueLabels on an existing title) the destination issue's body,
\* milestone, deadline and label set equal the payload built from the source
\* issue, whatever the destination issue held before.
C6_UpdateOverwritesAll ==
    (/\ Len(calls) >= 2
     /\ LastCall.op = "ReplaceIssueLabels"
     /\ LastCall.ok)
    => LET edit == calls[Len(calls) - 1].arg
           d == DstIssueAt(LastCall.arg.index)
       IN /\ d.body = edit.opt.body
          /\ d.milestone = edit.opt.milestone
          /\ d.deadline = edit.opt.deadline
          /\ d.labels = LastCall.arg.opt.labels


\* the tool run up to MaxRuns times in a row on the same pair of projects
NextRerun == Next \/ Rerun

SpecRerun == InitRerun /\ [][NextRerun]_vars

(* ---------------- C7 ---------------- *)

Titles(list) == { list[i].title : i \in DOMAIN list }
Names(list) == { list[i].name : i \in DOMAIN list }

\* number of entities of `list` with title / name t
TitleCount(list, t) == Count(list, LAMBDA x : x.title = t)
NameCount(list, t) == Count(list, LAMBDA x : x.name = t)

\* no title or name occurs twice in the source listings
UniqueSourceTitles ==
    /\ \A t \in Titles(srcMilestones) : TitleCount(srcMilestones, t) = 1
    /\ \A t \in Names(srcLabels) : NameCount(srcLabels, t) = 1
    /\ \A t \in Titles(srcIssues) : TitleCount(srcIssues, t) = 1

CreateOps == {"CreateMilestone", "CreateLabel", "CreateIssue"}

\* C7 as claimed: idempotence.  When the second run ends Done after a first
\* run that ended Done, on a source with unique titles, the second run issued
\* no create call, the destination milestones and labels are those left by
\* the first run, and the number of destination issues has not grown.
C7_Idempotent ==
    (/\ run = 2
     /\ phase = "done"
     /\ prev[1].outcome = "done"
     /\ UniqueSourceTitles)
    => /\ CallsTo(calls, CreateOps) = <<>>
       /\ dstMilestones = prev[1].dstMilestones
       /\ dstLabels = prev[1].dstLabels
       /\ Len(dstIssues) <= Len(prev[1].dstIssues)

(* ---------------- C8 ---------------- *)

\* the destination listing the first run started from: what it left minus
\* what it appended
BeforeRun1(list, op) == SubSeq(list, 1, Len(list) - Len(OkCalls(prev[1].calls, op)))

\* occurrences of t after one uninterrupted successful run from the listing
\* `before`: one more than before if the source lists t and the run's table
\* does not hold it
AfterOneRun(cnt, listed, inTable) ==
    cnt + (IF listed /\ ~inTable THEN 1 ELSE 0)

\* C8 as claimed: re-run after failure.  When a run that failed is followed
\* by a run that ends Done, on a source with unique titles, no milestone
\* title, label name or issue title is present more often than after one
\* uninterrupted successful run, and nothing the failed run created is
\* created again.
C8_RerunAfterFailure ==
    (/\ run = 2
     /\ phase = "done"
     /\ prev[1].outcome = "failed"
     /\ UniqueSourceTitles)
    => LET m0 == BeforeRun1(prev[1].dstMilestones, "CreateMilestone")
           l0 == BeforeRun1(prev[1].dstLabels, "CreateLabel")
           i0 == BeforeRun1(prev[1].dstIssues, "CreateIssue")
       IN /\ \A t \in Titles(dstMilestones) :
               TitleCount(dstMilestones, t) <=
                  AfterOneRun(TitleCount(m0, t),
                              t \in Titles(FilterState(srcMilestones, "active")),
                              t \in Titles(DstPage(m0, UnsetPage)))
          /\ \A t \in Names(dstLabels) :
               NameCount(dstLabels, t) <=
                  AfterOneRun(NameCount(l0, t), t \in Names(srcLabels),
                              t \in Names(DstPage(l0, UnsetPage)))
          /\ \A t \in Titles(dstIssues) :
               TitleCount(dstIssues, t) <=
                  AfterOneRun(TitleCount(i0, t),
                              t \in Titles(FilterState(srcIssues, "opened")),
                              t \in Titles(i0))
          /\ \A i \in DOMAIN calls :
               /\ calls[i].op = "CreateMilestone" =>
                    \A j \in DOMAIN prev[1].calls :
                       ~(/\ prev[1].calls[j].op = "CreateMilestone"
                         /\ prev[1].calls[j].ok
                         /\ prev[1].calls[j].arg.title = calls[i].arg.title)
               /\ calls[i].op = "CreateLabel" =>
                    \A j \in DOMAIN prev[1].calls :
                       ~(/\ prev[1].calls[j].op = "CreateLabel"
                         /\ prev[1].calls[j].ok
                         /\ prev[1].calls[j].arg.name = calls[i].arg.name)
               /\ calls[i].op = "CreateIssue" =>
                    \A j \in DOMAIN prev[1].calls :
                       ~(/\ prev[1].calls[j].op = "CreateIssue"
                         /\ prev[1].calls[j].ok
                         /\ prev[1].calls[j].arg.title = calls[i].arg.title)


(* ---------------- C9 ---------------- *)

\* C9: completeness.  When a run ends Done, every active source milestone
\* title, every source label name and every open source issue title exists
\* at the destination, however many pages the source listings span.
C9_Complete ==
    phase = "done" =>
       /\ Titles(FilterState(srcMilestones, "active")) \subseteq Titles(dstMilestones)
       /\ Names(srcLabels) \subseteq Names(dstLabels)
       /\ Titles(FilterState(srcIssues, "opened")) \subseteq Titles(dstIssues)

\* a finished run whose label and issue listings spanned two non-empty pages
\* and that had to create labels and issues
C9_Witness ==
    /\ phase = "done"
    /\ Len(ArgsOf(calls, "ListLabels")) >= 3
    /\ Len(ArgsOf(calls, "ListProjectIssues")) >= 3
    /\ Len(OkCalls(calls, "CreateLabel")) >= 1
    /\ Len(OkCalls(calls, "CreateIssue")) >= 2

(* ---------------- C10 ---------------- *)

\* the sizes of the pages returned to `op`, in order
PageSizes(op) ==
    LET sel == OkCalls(calls, op) IN [i \in DOMAIN sel |-> Len(sel[i].res)]

\* the requests of one source listing follow the protocol: pages 1, 2, 3, ...
\* with per_page 100, each request but the first issued after a non-empty
\* page, and nothing requested after an empty page
PagingProtocol(op) ==
    LET sel == CallsTo(calls, {op})
    IN \A i \in DOMAIN sel :
          /\ sel[i].arg.page = i
          /\ sel[i].arg.perPage = 100
          /\ i < Len(sel) => (sel[i].ok /\ Len(sel[i].res) > 0)

\* C10: source pagination.  Each source listing is requested as pages
\* 1, 2, 3, ... with page size 100; when the next page is requested every
\* item of the pages before has been processed, in returned order; a short
\* non-empty page does not end the sequence, the first empty page does, and
\* by then the whole listing has been streamed.  The listing served as pages
\* of 100, 100, 37 and 0 items is consumed as 237 items in 4 requests.
C10_Pagination ==
    /\ PagingProtocol("ListMilestones")
    /\ PagingProtocol("ListLabels")
    /\ PagingProtocol("ListProjectIssues")
    /\ (pc = "list" /\ phase = "milestones") =>
          ArgsOf(calls, "CreateMilestone") =
             ExpectedMilestoneCreates(MilestonesStreamed, DOMAIN existingMilestones)
    /\ (pc = "list" /\ phase = "labels") =>
          ArgsOf(calls, "CreateLabel") =
             ExpectedLabelCreates(LabelsStreamed, DOMAIN existingLabels)
    /\ (pc = "list" /\ phase = "issues") =>
          IssueCallsIssued = ExpectedIssueCalls(IssuesStreamed, giteaIssues)
    /\ phase \in {"labels", "issues", "done"} =>
          /\ MilestonePhaseReturned
          /\ MilestonesStreamed = FilterState(srcMilestones, "active")
    /\ phase \in {"issues", "done"} =>
          /\ LabelPhaseReturned
          /\ LabelsStreamed = srcLabels
    /\ phase = "done" =>
          /\ IssuePhaseReturned
          /\ IssuesStreamed = FilterState(srcIssues, "opened")
    /\ (srcMilestones = ScenarioMilestones /\ phase \in {"labels", "issues", "done"}) =>
          /\ PageSizes("ListMilestones") = <<100, 100, 37, 0>>
          /\ Len(MilestonesStreamed) = 237
          /\ Len(CallsTo(calls, {"ListMilestones"})) = 4

\* the milestone phase on the 237 milestones returned after its fourth
\* request, the third page having been a short one
C10_Witness ==
    /\ phase = "labels"
    /\ srcMilestones = ScenarioMilestones
    /\ PageSizes("ListMilestones") = <<100, 100, 37, 0>>
    /\ Len(ArgsOf(calls, "CreateMilestone")) = 236


(* ---------------- C11 ---------------- *)

\* C11 as claimed: every lookup table holds every entity of the destination
\* listing.  Right after a table fetch completed, every milestone title,
\* label name or issue title that exists at the destination is a key of the
\* table just built.
C11_TablesComplete ==
    (calls # <<>> /\ LastCall.ok) =>
       /\ (LastCall.op = "ListRepoMilestones" /\ LastCall.phase = "milestones") =>
             Titles(dstMilestones) \subseteq DOMAIN existingMilestones
       /\ (LastCall.op = "ListRepoLabels" /\ LastCall.phase = "labels") =>
             Names(dstLabels) \subseteq DOMAIN existingLabels
       /\ (LastCall.op = "ListRepoIssues" /\ Len(LastCall.res) = 0) =>
             Titles(dstIssues) \subseteq DOMAIN giteaIssues
       /\ (LastCall.op = "ListRepoMilestones" /\ LastCall.phase = "issues") =>
             Titles(dstMilestones) \subseteq DOMAIN giteaMilestones
       /\ (LastCall.op = "ListRepoLabels" /\ LastCall.phase = "issues") =>
             Names(dstLabels) \subseteq DOMAIN giteaLabels


(* ---------------- C12 ---------------- *)

\* C12 as claimed: closed destination entities count as existing.  No
\* createMilestone call is ever issued for the title of a closed destination
\* milestone, and no createIssue call for the title of a closed destination
\* issue.
C12_ClosedCountsAsExisting ==
    /\ \A i \in DOMAIN dstMilestones :
          dstMilestones[i].state = "closed" =>
             \A k \in DOMAIN calls :
                calls[k].op = "CreateMilestone" =>
                   calls[k].arg.title # dstMilestones[i].title
    /\ \A i \in DOMAIN dstIssues :
          dstIssues[i].state = "closed" =>
             \A k \in DOMAIN calls :
                calls[k].op = "CreateIssue" =>
                   calls[k].arg.title # dstIssues[i].title


(* ---------------- C13 ---------------- *)

\* the create and edit calls of the issue phase: one per processed issue
IssueCalls == CallsTo(calls, {"CreateIssue", "EditIssue"})

\* the calls that carry the label IDs of a processed issue
IssueLabelCalls == CallsTo(calls, {"CreateIssue", "ReplaceIssueLabels"})

PayloadMilestone(c) ==
    IF c.op = "CreateIssue" THEN c.arg.milestone ELSE c.arg.opt.milestone

PayloadLabels(c) ==
    IF c.op = "CreateIssue" THEN c.arg.labels ELSE c.arg.opt.labels

\* the milestone ID the claim expects for `issue`
ExpectedMilestoneID(issue) ==
    IF issue.milestone \in DOMAIN giteaMilestones
    THEN giteaMilestones[issue.milestone].id
    ELSE NoID

\* the label IDs the claim expects for `issue`
ExpectedLabelIDs(issue) ==
    LET known == SelectSeq(issue.labels, LAMBDA n : n \in DOMAIN giteaLabels)
    IN [i \in DOMAIN known |-> giteaLabels[known[i]].id]

\* the warnings the claim expects for `issue`, as <<message, reference>>
ExpectedWarnings(issue) ==
    LET unknown == SelectSeq(issue.labels, LAMBDA n : n \notin DOMAIN giteaLabels)
    IN (IF issue.milestone = NoMilestone \/ issue.milestone \in DOMAIN giteaMilestones
        THEN <<>>
        ELSE << <<"Unknown milestone", issue.milestone>> >>)
       \o [i \in DOMAIN unknown |-> <<"Unknown label", unknown[i]>>]

\* the warnings logged so far, as <<message, reference>>
WarningsLogged ==
    LET w == SelectSeq(logs, LAMBDA r : r.level = "error")
    IN [i \in DOMAIN w |-> <<w[i].msg, w[i].value>>]

\* C13: reference resolution.  For every processed issue, the milestone ID of
\* its payload is the ID of the milestone table entry of the issue's milestone
\* title if that title is a key and none otherwise, and the label IDs of its
\* payload are the IDs of exactly those labels of the issue that are keys of
\* the label table, in the issue's label order; the warnings logged are, issue
\* by issue, one unknown-milestone warning if the issue names a milestone that
\* is not a key (none if it names no milestone) and one unknown-label warning
\* per label that is not a key.
C13_ReferenceResolution ==
    /\ \A k \in DOMAIN IssueCalls :
          PayloadMilestone(IssueCalls[k]) = ExpectedMilestoneID(IssuesStreamed[k])
    /\ \A k \in DOMAIN IssueLabelCalls :
          PayloadLabels(IssueLabelCalls[k]) = ExpectedLabelIDs(IssuesStreamed[k])
    /\ WarningsLogged =
          Flatten([k \in DOMAIN IssueCalls |-> ExpectedWarnings(IssuesStreamed[k])])

\* a finished run that created an issue with a resolved milestone and two
\* labels of which one was unknown
C13_Witness ==
    /\ phase = "done"
    /\ \E k \in DOMAIN IssueCalls :
          /\ IssueCalls[k].op = "CreateIssue"
          /\ Len(IssuesStreamed[k].labels) = 2
          /\ IssueCalls[k].arg.milestone # NoID
          /\ Len(IssueCalls[k].arg.labels) = 1
    /\ \E i \in DOMAIN WarningsLogged : WarningsLogged[i][1] = "Unknown label"


(* ---------------- C14 ---------------- *)

PayloadTitle(c) ==
    IF c.op = "CreateIssue" THEN c.arg.title ELSE c.arg.opt.title

\* C14: unresolved references are never fatal.  The run is Failed only after
\* a failed remote call; the streamed issues are processed one by one in
\* order whatever their references, an issue with an unknown milestone being
\* created or updated without milestone and one with unknown labels without
\* those labels; and a run that is Done has processed every open source
\* issue.
C14_UnresolvedNotFatal ==
    /\ phase = "failed" => (calls # <<>> /\ ~LastCall.ok)
    /\ Len(IssueCalls) <= Len(IssuesStreamed)
    /\ \A k \in DOMAIN IssueCalls :
          LET issue == IssuesStreamed[k]
          IN /\ PayloadTitle(IssueCalls[k]) = issue.title
             /\ issue.milestone \notin DOMAIN giteaMilestones =>
                   PayloadMilestone(IssueCalls[k]) = NoID
    /\ \A k \in DOMAIN IssueLabelCalls :
          Len(PayloadLabels(IssueLabelCalls[k])) =
             Cardinality({i \in DOMAIN IssuesStreamed[k].labels :
                            IssuesStreamed[k].labels[i] \in DOMAIN giteaLabels})
    /\ phase = "done" => Len(IssueCalls) = Len(FilterState(srcIssues, "opened"))

\* a finished run whose first issue had an unknown reference and that went on
\* to process a second issue
C14_Witness ==
    /\ phase = "done"
    /\ Len(IssueCalls) >= 2
    /\ ExpectedWarnings(IssuesStreamed[1]) # <<>>
    /\ WarningsLogged # <<>>


(* ---------------- C15 ---------------- *)

\* the label set the destination issue `index` had before the update in
\* progress: the one of the last successful replace of this run, else the
\* one listed at the start of the issue phase
PriorLabels(index) ==
    LET earlier == {i \in DOMAIN calls :
                      /\ i < Len(calls)
                      /\ calls[i].op = "ReplaceIssueLabels"
                      /\ calls[i].ok
                      /\ calls[i].arg.index = index}
        t == CHOOSE u \in DOMAIN giteaIssues : giteaIssues[u].index = index
    IN IF earlier = {} THEN giteaIssues[t].labels
       ELSE calls[MaxOf(earlier)].arg.opt.labels

\* C15: the two-call update is neither atomic nor compensated.  A replace-
\* labels call is only ever issued right after a successful edit of the same
\* issue, so a failed edit is followed by no replace-labels call; and when
\* the edit succeeded and the replace-labels call failed, the run is Failed,
\* that call is the last one, and the destination issue holds the source
\* issue's body and resolved milestone together with the label set it had
\* before the update.
C15_UpdateNotAtomic ==
    /\ \A i \in DOMAIN calls :
          /\ calls[i].op = "ReplaceIssueLabels" =>
                /\ i > 1
                /\ calls[i - 1].op = "EditIssue"
                /\ calls[i - 1].ok
                /\ calls[i - 1].arg.index = calls[i].arg.index
          /\ (calls[i].op \in {"EditIssue", "ReplaceIssueLabels"} /\ ~calls[i].ok) =>
                i = Len(calls)
    /\ (calls # <<>> /\ LastCall.op = "ReplaceIssueLabels" /\ ~LastCall.ok) =>
          LET issue == IssuesStreamed[Len(IssueCalls)]
              d == DstIssueAt(LastCall.arg.index)
          IN /\ phase = "failed"
             /\ d.body = issue.description
             /\ d.milestone = ExpectedMilestoneID(issue)
             /\ d.labels = PriorLabels(LastCall.arg.index)

\* a run that failed in replace-labels after the edit had changed the body,
\* the old labels differing from the ones the update was about to set
C15_Witness ==
    /\ phase = "failed"
    /\ LastCall.op = "ReplaceIssueLabels"
    /\ ~LastCall.ok
    /\ DstIssueAt(LastCall.arg.index).body # "old"
    /\ DstIssueAt(LastCall.arg.index).labels # LastCall.arg.opt.labels


(* ---------------- C16 ---------------- *)

\* the steps of newMigrator in program order
SetupOps ==
    << "gitlab.NewClient", "CurrentUserStatus", "GetProject",
       "gitea.NewClient", "GetMyUserInfo", "GetRepo" >>

\* the destination project name the run uses, and its number of slashes
EffectivePath == IF args.giteaProject = <<>> THEN args.gitlabProject ELSE args.giteaProject
Slashes == Cardinality({i \in DOMAIN EffectivePath : EffectivePath[i] = "/"})

\* C16: setup errors are fatal before any phase.  A failed setup step is the
\* last step taken and leaves the run failed in setup; as long as setup is
\* running or has failed no migration-phase remote call has been issued; and
\* a run that is past setup has taken all six setup steps successfully, in
\* order, with a destination path of exactly two components.
C16_SetupErrorsFatal ==
    /\ \A i \in DOMAIN setupCalls :
          ~setupCalls[i].ok => (i = Len(setupCalls) /\ phase = "setupFailed")
    /\ phase \in {"setup", "setupFailed"} => calls = <<>>
    /\ phase \notin {"setup", "setupFailed"} =>
          /\ [i \in DOMAIN setupCalls |-> setupCalls[i].op] = SetupOps
          /\ \A i \in DOMAIN setupCalls : setupCalls[i].ok
          /\ Slashes = 1
    /\ phase = "setupFailed" =>
          /\ logs # <<>>
          /\ logs[Len(logs)].level = "fatal"
          /\ logs[Len(logs)].msg = "Creating migrator failed"

\* a run whose destination repository lookup, the last setup step, failed
C16_Witness ==
    /\ phase = "setupFailed"
    /\ Len(setupCalls) = Len(SetupOps)
    /\ setupCalls[Len(setupCalls)].op = "GetRepo"
    /\ ~setupCalls[Len(setupCalls)].ok
    /\ calls = <<>>


(* ---------------- C17 ---------------- *)

\* the messages of the phase announcements logged so far
Announced == {logs[i].msg : i \in DOMAIN logs}

\* C17: an error raised during a phase is reported wrapped with the name of
\* that phase and no other.  A failed run ends its log with the one fatal
\* record of the run, whose error starts with "migrating milestones" if the
\* failing call was made in the milestone phase (before the label phase was
\* announced), with "migrating labels" if it was made in the label phase
\* (before the issue phase was announced), and with "migrating issues" if it
\* was made in the issue phase.
C17_ErrorWrapped ==
    phase = "failed" =>
       LET last == logs[Len(logs)]
       IN /\ last.level = "fatal"
          /\ last.msg = "Migrating the project failed"
          /\ Cardinality({i \in DOMAIN logs : logs[i].level = "fatal"}) = 1
          /\ last.value \in {"migrating milestones", "migrating labels", "migrating issues"}
          /\ last.value = "migrating milestones" <=>
                /\ LastCall.phase = "milestones"
                /\ "Migrating labels" \notin Announced
          /\ last.value = "migrating labels" <=>
                /\ LastCall.phase = "labels"
                /\ "Migrating labels" \in Announced
                /\ "Migrating issues" \notin Announced
          /\ last.value = "migrating issues" <=>
                /\ LastCall.phase = "issues"
                /\ "Migrating issues" \in Announced

\* a run that failed in the label phase
C17_Witness ==
    /\ phase = "failed"
    /\ LastCall.phase = "labels"
    /\ ~LastCall.ok
    /\ logs[Len(logs)].value = "migrating labels"


(* ---------------- C18 ---------------- *)

\* the setup steps before the destination repository lookup have succeeded
\* and setup has gone past the split of the destination path
PathExamined ==
    /\ phase # "setup"
    /\ Len(setupCalls) >= Len(SetupOps) - 1
    /\ \A i \in 1..(Len(SetupOps) - 1) : setupCalls[i].ok

\* C18: destination project path.  The path used is the GiteaProject
\* argument, or the GitLab project path when that argument is omitted.  The
\* destination repository is only ever looked up with an owner and a repo
\* that, joined by "/", are that path, the path holding exactly one "/"; a
\* path that does not split on "/" into exactly two components ends setup
\* with the error "wrong format of Gitea project name" and without a
\* repository lookup.
C18_DestinationPath ==
    /\ \A i \in DOMAIN setupCalls :
          setupCalls[i].op = "GetRepo" =>
             /\ Slashes = 1
             /\ Len(setupCalls[i].arg) = 2
             /\ setupCalls[i].arg[1] \o <<"/">> \o setupCalls[i].arg[2] = EffectivePath
             /\ giteaOwner = setupCalls[i].arg[1]
             /\ giteaRepo = setupCalls[i].arg[2]
    /\ (PathExamined /\ Slashes = 1) =>
          \E i \in DOMAIN setupCalls : setupCalls[i].op = "GetRepo"
    /\ (PathExamined /\ Slashes # 1) =>
          /\ phase = "setupFailed"
          /\ \A i \in DOMAIN setupCalls : setupCalls[i].op # "GetRepo"
          /\ logs[Len(logs)].value = "wrong format of Gitea project name"
          /\ calls = <<>>

\* the destination path was omitted and the three-component source path
\* was rejected
C18_Witness ==
    /\ PathExamined
    /\ args.giteaProject = <<>>
    /\ Len(Split(args.gitlabProject, "/")) = 3
    /\ phase = "setupFailed"
    /\ logs[Len(logs)].value = "wrong format of Gitea project name"


(* ---------------- C19 ---------------- *)

\* the keys of the destination issue table as fetched at the start of the
\* issue phase: the titles of the issues the destination listed
FetchedIssueTitles == Titles(ItemsReturned(calls, "ListRepoIssues"))

\* C19: duplicate titles absent from the destination.  Once the run is Done,
\* for every title that is not a key of the destination issue table fetched
\* at the start of the issue phase, the successful createIssue calls of that
\* title are as many as the open source issues of that title, and so are the
\* destination issues of that title: two open source issues sharing such a
\* title give two createIssue calls and two destination issues.
C19_DuplicateTitlesCreateTwice ==
    phase = "done" =>
       \A t \in Titles(FilterState(srcIssues, "opened")) \ FetchedIssueTitles :
          LET n == TitleCount(FilterState(srcIssues, "opened"), t)
          IN /\ Cardinality({k \in DOMAIN calls :
                               /\ calls[k].op = "CreateIssue"
                               /\ calls[k].arg.title = t}) = n
             /\ TitleCount(dstIssues, t) = n

\* a finished run with two open source issues of one title that was not at
\* the destination, which now holds two issues of that title
C19_Witness ==
    /\ phase = "done"
    /\ \E t \in Titles(srcIssues) \ FetchedIssueTitles :
          /\ TitleCount(FilterState(srcIssues, "opened"), t) = 2
          /\ TitleCount(dstIssues, t) = 2
          /\ srcIssues[1].description # srcIssues[2].description


(* ---------------- C20 ---------------- *)

OpenSourceIssues == FilterState(srcIssues, "opened")

\* the open source issues of title t, in listing order
OpenSourceIssuesOf(t) == SelectSeq(OpenSourceIssues, LAMBDA x : x.title = t)

\* the calls to `op` addressed to issue `index`
CallsAddressed(op, index) ==
    {k \in DOMAIN calls : calls[k].op = op /\ calls[k].arg.index = index}

\* the titles two open source issues share
SharedTitles == {t \in Titles(OpenSourceIssues) : Len(OpenSourceIssuesOf(t)) = 2}

\* C20 as claimed: once the run is Done, for every title two open source
\* issues share, whether or not the title existed at the destination before,
\* the destination holds a single issue of that title, and it carries the
\* second source issue's body, milestone, deadline and labels.
C20_SecondOverwritesFirst ==
    phase = "done" =>
       \A t \in SharedTitles :
          LET s2 == OpenSourceIssuesOf(t)[2]
          IN /\ TitleCount(dstIssues, t) = 1
             /\ \A i \in DOMAIN dstIssues :
                   dstIssues[i].title = t =>
                      /\ dstIssues[i].body = s2.description
                      /\ dstIssues[i].milestone = ExpectedMilestoneID(s2)
                      /\ dstIssues[i].deadline = s2.dueDate
                      /\ dstIssues[i].labels = ExpectedLabelIDs(s2)

\* C20, amended: once the run is Done, for every title two open source
\* issues share and that is a key of the destination issue table, no issue
\* of that title was created, the destination holds as many issues of that
\* title as it listed, the issue of the table entry carries the second
\* source issue's body, resolved milestone and resolved labels, and the last
\* edit call addressed to it carries the second source issue's title, body,
\* resolved milestone and due date.
C20_SecondOverwritesExisting ==
    phase = "done" =>
       \A t \in SharedTitles \cap FetchedIssueTitles :
          LET s2 == OpenSourceIssuesOf(t)[2]
              d == DstIssueAt(giteaIssues[t].index)
              edits == CallsAddressed("EditIssue", giteaIssues[t].index)
          IN /\ \A k \in DOMAIN calls :
                   calls[k].op = "CreateIssue" => calls[k].arg.title # t
             /\ TitleCount(dstIssues, t) =
                   TitleCount(ItemsReturned(calls, "ListRepoIssues"), t)
             /\ d.title = t
             /\ d.body = s2.description
             /\ d.milestone = ExpectedMilestoneID(s2)
             /\ d.labels = ExpectedLabelIDs(s2)
             /\ edits # {}
             /\ calls[MaxOf(edits)].arg.opt =
                   [title |-> t, body |-> s2.description,
                    milestone |-> ExpectedMilestoneID(s2),
                    deadline |-> s2.dueDate, state |-> NoState]

\* a finished run that updated one destination issue twice, for two source
\* issues of one title and different bodies, and left it with the second body
C20_Witness ==
    /\ phase = "done"
    /\ \E t \in SharedTitles \cap FetchedIssueTitles :
          /\ OpenSourceIssuesOf(t)[1].description # OpenSourceIssuesOf(t)[2].description
          /\ DstIssueAt(giteaIssues[t].index).body = OpenSourceIssuesOf(t)[2].description
          /\ Cardinality({k \in DOMAIN calls :
                            /\ calls[k].op = "EditIssue"
                            /\ calls[k].arg.index = giteaIssues[t].index}) = 2


(* ---------------- C21 ---------------- *)

DstListOps == {"ListRepoIssues", "ListRepoMilestones", "ListRepoLabels"}

\* the calls of the run made in phase p, in order
CallsIn(p) == SelectSeq(calls, LAMBDA c : c.phase = p)

\* the table a listing gives: each title (name) mapped to the entity listed
\* last under it
SnapshotOf(list, key) ==
    [k \in {list[i][key] : i \in DOMAIN list} |->
        list[MaxOf({i \in DOMAIN list : list[i][key] = k})]]

\* the items the successful calls to `op` in phase p returned, in order
ListedIn(p, op) == ItemsReturned(CallsIn(p), op)

\* position of a destination listing in the fetch order of the issue phase
FetchRank(op) ==
    CASE op = "ListRepoIssues" -> 1
      [] op = "ListRepoMilestones" -> 2
      [] op = "ListRepoLabels" -> 3

\* the destination listings phase p uses
TablesOf(p) ==
    CASE p = "milestones" -> {"ListRepoMilestones"}
      [] p = "labels" -> {"ListRepoLabels"}
      [] p = "issues" -> DstListOps

\* C21: lookup tables are phase-start snapshots.  In every phase the
\* destination listing calls are the first calls of the phase, so they all
\* precede the first source page; each single-request table is requested at
\* most once and each page of the destination issue listing once, in the
\* issue phase in the order issues, milestones, labels; a source page is only
\* requested after every table of the phase has been fetched; and at every
\* moment each table is exactly what its listing returned, whatever the run
\* has created since.
C21_TablesAreSnapshots ==
    /\ \A p \in {"milestones", "labels", "issues"} :
          LET cp == CallsIn(p)
          IN /\ \A j \in DOMAIN cp :
                   cp[j].op \in DstListOps =>
                      /\ cp[j].op \in TablesOf(p)
                      /\ \A i \in 1..(j - 1) :
                            /\ cp[i].op \in DstListOps
                            /\ cp[i].ok
                            /\ FetchRank(cp[i].op) <= FetchRank(cp[j].op)
                            /\ cp[i].op = cp[j].op =>
                                  /\ cp[j].op = "ListRepoIssues"
                                  /\ cp[i].arg.page < cp[j].arg.page
             /\ (\E j \in DOMAIN cp : cp[j].op \notin DstListOps) =>
                   \A op \in TablesOf(p) :
                      \E i \in DOMAIN cp :
                         /\ cp[i].op = op
                         /\ cp[i].ok
                         /\ op = "ListRepoIssues" => Len(cp[i].res) = 0
    /\ existingMilestones = SnapshotOf(ListedIn("milestones", "ListRepoMilestones"), "title")
    /\ existingLabels = SnapshotOf(ListedIn("labels", "ListRepoLabels"), "name")
    /\ giteaIssues = SnapshotOf(ListedIn("issues", "ListRepoIssues"), "title")
    /\ giteaMilestones = SnapshotOf(ListedIn("issues", "ListRepoMilestones"), "title")
    /\ giteaLabels = SnapshotOf(ListedIn("issues", "ListRepoLabels"), "name")

\* a finished run that created a milestone and an issue, neither of which
\* entered the table of the phase that created it
C21_Witness ==
    /\ phase = "done"
    /\ \E k \in DOMAIN calls :
          /\ calls[k].op = "CreateMilestone"
          /\ calls[k].ok
          /\ calls[k].arg.title \notin DOMAIN existingMilestones
    /\ \E k \in DOMAIN calls :
          /\ calls[k].op = "CreateIssue"
          /\ calls[k].ok
          /\ calls[k].arg.title \notin DOMAIN giteaIssues


(* ---------------- C22 ---------------- *)

\* the titles (names) of the create calls to `op` of the run
TitlesCreated(op) ==
    {calls[k].arg.title : k \in {j \in DOMAIN calls : calls[j].op = op}}
NamesCreated(op) ==
    {calls[k].arg.name : k \in {j \in DOMAIN calls : calls[j].op = op}}

\* the engine does not detect what was written after its snapshot: once a
\* phase has returned, a create call was issued for every streamed item that
\* is not a key of the snapshot, whatever the destination holds
CreatesFollowSnapshot ==
    /\ MilestonePhaseReturned =>
          TitlesCreated("CreateMilestone") =
             Titles(MilestonesStreamed) \ DOMAIN existingMilestones
    /\ LabelPhaseReturned =>
          NamesCreated("CreateLabel") = Names(LabelsStreamed) \ DOMAIN existingLabels
    /\ IssuePhaseReturned =>
          TitlesCreated("CreateIssue") = Titles(IssuesStreamed) \ DOMAIN giteaIssues

\* every entity the run created is the only one of its title (name) at the
\* destination
CreatedAreUnique ==
    \A k \in DOMAIN calls :
       calls[k].ok =>
          /\ calls[k].op = "CreateMilestone" =>
                TitleCount(dstMilestones, calls[k].arg.title) = 1
          /\ calls[k].op = "CreateLabel" =>
                NameCount(dstLabels, calls[k].arg.name) = 1
          /\ calls[k].op = "CreateIssue" =>
                TitleCount(dstIssues, calls[k].arg.title) = 1

\* C22 as claimed: the stale-table race.  With another actor writing to the
\* destination the engine still issues a create call for every source item
\* absent from its snapshot; and when no other actor has written and the
\* source titles are unique, no entity the run created shares its title
\* (name) with another destination entity.
C22_StaleTableRace ==
    /\ CreatesFollowSnapshot
    /\ (ExternalWrites = 0 /\ UniqueSourceTitles) => CreatedAreUnique


(* ---------------- C23 ---------------- *)

\* the destination issues as listed at the start of the issue phase
IssuesListed == ListedIn("issues", "ListRepoIssues")

\* the destination issue listing has been read to its empty page
IssueListingComplete ==
    \E i \in DOMAIN calls : IsEmptyPage(calls[i], "ListRepoIssues")

\* the index of the issue listed last under title t
LastListedIndex(t) ==
    IssuesListed[MaxOf({i \in DOMAIN IssuesListed : IssuesListed[i].title = t})].index


\* C23: duplicate keys resolve last-seen-wins.  Once the destination issue
\* listing is complete, the table maps every listed title to the issue
\* listed last under it; a title is found in the table exactly if some
\* listed issue carries it (as with a first-match-wins table); every edit
\* and replace-labels call is addressed to the last-listed issue of the
\* title it carries; and after a Done run an open source issue that is the
\* only one of its title and whose title was listed has caused exactly one
\* edit and one replace-labels call to that issue and no create call.
C23_LastSeenWins ==
    IssueListingComplete =>
       /\ DOMAIN giteaIssues = Titles(IssuesListed)
       /\ \A t \in DOMAIN giteaIssues : giteaIssues[t].index = LastListedIndex(t)
       /\ \A k \in DOMAIN IssuesStreamed :
             IssueExists(giteaIssues, IssuesStreamed[k]) <=>
                \E i \in DOMAIN IssuesListed :
                   IssuesListed[i].title = IssuesStreamed[k].title
       /\ \A k \in DOMAIN calls :
             calls[k].op = "EditIssue" =>
                calls[k].arg.index = LastListedIndex(calls[k].arg.opt.title)
       /\ phase = "done" =>
             \A t \in Titles(OpenSourceIssues) \cap Titles(IssuesListed) :
                Len(OpenSourceIssuesOf(t)) = 1 =>
                   /\ Cardinality(CallsAddressed("EditIssue", LastListedIndex(t))) = 1
                   /\ Cardinality(CallsAddressed("ReplaceIssueLabels", LastListedIndex(t))) = 1
                   /\ t \notin TitlesCreated("CreateIssue")
                   /\ \A i \in DOMAIN IssuesListed :
                         (IssuesListed[i].title = t
                            /\ IssuesListed[i].index # LastListedIndex(t)) =>
                               CallsAddressed("EditIssue", IssuesListed[i].index) = {}

\* a finished run on a destination that listed one title on its first and
\* on its second page, and that updated the issue of the second page
C23_Witness ==
    /\ phase = "done"
    /\ Len(IssuesListed) = DstPageSize + 1
    /\ IssuesListed[1].title = IssuesListed[DstPageSize + 1].title
    /\ CallsAddressed("EditIssue", IssuesListed[DstPageSize + 1].index) # {}
    /\ CallsAddressed("ReplaceIssueLabels", IssuesListed[DstPageSize + 1].index) # {}
    /\ CallsAddressed("EditIssue", IssuesListed[1].index) = {}


(* ---------------- C24 ---------------- *)

Terminated == phase \in {"done", "failed"}

\* the source listing the paging loop of phase p reads
SourceListingOf(p) ==
    CASE p = "milestones" -> FilterState(srcMilestones, "active")
      [] p = "labels" -> srcLabels
      [] p = "issues" -> FilterState(srcIssues, "opened")

SourceListOp(p) ==
    CASE p = "milestones" -> "ListMilestones"
      [] p = "labels" -> "ListLabels"
      [] p = "issues" -> "ListProjectIssues"

\* the source listing of phase p returns a non-empty page for every page
\* number
NeverEmpty(p) == srcEndless /\ SourceListingOf(p) # <<>>

\* the destination issue listing returns a non-empty page for every page
\* number
DstNeverEmpty == dstEndless /\ dstIssues # <<>>

\* the phases after p, and the end of a run without error
PhasesPast(p) ==
    CASE p = "milestones" -> {"labels", "issues", "done"}
      [] p = "labels" -> {"issues", "done"}
      [] p = "issues" -> {"done"}

\* the run is past the paging loop of giteaIssues(): it has made a call of
\* the issue phase other than a request for a page of destination issues,
\* or it has ended without error
PastIssueListing ==
    \/ phase = "done"
    \/ \E k \in DOMAIN calls :
          calls[k].phase = "issues" /\ calls[k].op # "ListRepoIssues"

\* a phase is only left for the next one on an empty page of its source listing
LeftOnEmptyPage ==
    (phase' # phase /\ phase' # "failed") =>
       LET c == calls'[Len(calls')]
       IN /\ Len(calls') = Len(calls) + 1
          /\ c.op = SourceListOp(phase)
          /\ c.ok
          /\ c.res = <<>>

\* the call that follows a request for a page of destination issues is the
\* request for the next page, unless the page was empty
IssueListingLeftOnEmptyPage ==
    (/\ Len(calls') = Len(calls) + 1
     /\ calls # <<>>
     /\ LastCall.op = "ListRepoIssues") =>
       LET c == calls'[Len(calls')]
       IN /\ LastCall.ok
          /\ IF LastCall.res = <<>>
             THEN c.op # "ListRepoIssues"
             ELSE /\ c.op = "ListRepoIssues"
                  /\ c.arg.page = LastCall.arg.page + 1

\* C24: termination.  When every remote call returns and each of the four
\* paged listings (the three source listings and the destination issue
\* listing) ends with an empty page or an error, the run eventually is Done
\* or Failed; a run whose source listing of some phase returns a non-empty
\* page for every page number never gets past that phase, and a run whose
\* destination issue listing does so never gets past the loop of
\* giteaIssues() (it stays in the paging loop unless a call fails); nothing
\* but an empty page of its source listing makes a phase return without
\* error, and nothing but an empty page ends the destination issue listing.
C24_Termination ==
    /\ (~srcEndless /\ ~dstEndless) => <>Terminated
    /\ [](\A p \in {"milestones", "labels", "issues"} :
             NeverEmpty(p) => phase \notin PhasesPast(p))
    /\ [](DstNeverEmpty => ~PastIssueListing)
    /\ [][LeftOnEmptyPage]_vars
    /\ [][IssueListingLeftOnEmptyPage]_vars

\* a run on properly paging servers that ended Done after reading more than
\* one non-empty page of a source listing and the destination issue listing
\* to its empty page
C24_Witness ==
    /\ ~srcEndless
    /\ ~dstEndless
    /\ phase = "done"
    /\ \E k \in DOMAIN calls :
          /\ calls[k].op = "ListProjectIssues"
          /\ calls[k].arg.page = 2
          /\ calls[k].res # <<>>
    /\ \E k \in DOMAIN calls :
          /\ calls[k].op = "ListRepoIssues"
          /\ calls[k].arg.page = 2
          /\ calls[k].res = <<>>


(* ---------------- C25 ---------------- *)

\* the remote operations that write to the destination without deleting or
\* closing anything, and the listings
HarmlessOps ==
    {"ListRepoMilestones", "ListRepoLabels", "ListRepoIssues",
     "ListMilestones", "ListLabels", "ListProjectIssues",
     "CreateMilestone", "CreateLabel", "CreateIssue",
     "EditIssue", "ReplaceIssueLabels"}

\* a step leaves every destination milestone and label as it is, new ones
\* being added behind them, and leaves every destination issue as it is
\* whose title no source issue carries
ExistingUntouched ==
    /\ Len(dstMilestones') >= Len(dstMilestones)
    /\ \A i \in DOMAIN dstMilestones : dstMilestones'[i] = dstMilestones[i]
    /\ Len(dstLabels') >= Len(dstLabels)
    /\ \A i \in DOMAIN dstLabels : dstLabels'[i] = dstLabels[i]
    /\ Len(dstIssues') >= Len(dstIssues)
    /\ \A i \in DOMAIN dstIssues :
          dstIssues[i].title \notin Titles(srcIssues) => dstIssues'[i] = dstIssues[i]

\* C25: existing destination milestones and labels are never mutated.  No
\* step of a run changes or removes a milestone or a label the destination
\* holds, whatever the source says about an entity of the same title (name);
\* no step changes a destination issue whose title no source issue carries;
\* and the run issues only list, create, edit-issue and replace-labels
\* calls, none of them a delete or a close.
C25_ExistingNeverMutated ==
    /\ [](\A k \in DOMAIN calls : calls[k].op \in HarmlessOps)
    /\ [][ExistingUntouched]_vars

\* a finished run that left the destination milestone "v1" as it was although
\* the source milestone "v1" has another description and due date, and that
\* created no second "v1"
C25_Witness ==
    /\ phase = "done"
    /\ TitleCount(dstMilestones, "v1") = 1
    /\ \E i \in DOMAIN dstMilestones :
          /\ dstMilestones[i].title = "v1"
          /\ \E j \in DOMAIN srcMilestones :
                /\ srcMilestones[j].title = "v1"
                /\ srcMilestones[j].state = "active"
                /\ srcMilestones[j].description # dstMilestones[i].description
                /\ srcMilestones[j].dueDate # dstMilestones[i].deadline
    /\ \E i \in DOMAIN dstIssues :
          /\ dstIssues[i].title \in Titles(srcIssues)
          /\ dstIssues[i].body # "old"


(* ---------------- C26 ---------------- *)

\* the source milestones in state st, and the source issues in state st
SrcMilestonesIn(st) == {srcMilestones[j] : j \in {i \in DOMAIN srcMilestones : srcMilestones[i].state = st}}
SrcIssuesIn(st) == {srcIssues[j] : j \in {i \in DOMAIN srcIssues : srcIssues[i].state = st}}

\* C26: only open source items are migrated.  The milestone listing is
\* requested for the active state and the issue listing for the opened
\* state; every createMilestone call carries the title, description and due
\* date of an active source milestone; every createIssue and editIssue call
\* carries the title and body of an open source issue; every replace-labels
\* call is addressed to the table entry of the title of an open source
\* issue; and the calls that create or edit an issue are never more than
\* the open source issues.
C26_OnlyOpenMigrated ==
    /\ \A k \in DOMAIN calls :
          /\ calls[k].op = "ListMilestones" => calls[k].arg.state = "active"
          /\ calls[k].op = "ListProjectIssues" => calls[k].arg.state = "opened"
          /\ calls[k].op = "CreateMilestone" =>
                \E m \in SrcMilestonesIn("active") :
                   /\ m.title = calls[k].arg.title
                   /\ m.description = calls[k].arg.description
                   /\ m.dueDate = calls[k].arg.deadline
          /\ calls[k].op = "CreateIssue" =>
                \E x \in SrcIssuesIn("opened") :
                   /\ x.title = calls[k].arg.title
                   /\ x.description = calls[k].arg.body
          /\ calls[k].op = "EditIssue" =>
                \E x \in SrcIssuesIn("opened") :
                   /\ x.title = calls[k].arg.opt.title
                   /\ x.description = calls[k].arg.opt.body
          /\ calls[k].op = "ReplaceIssueLabels" =>
                \E x \in SrcIssuesIn("opened") :
                   /\ x.title \in DOMAIN giteaIssues
                   /\ giteaIssues[x.title].index = calls[k].arg.index
    /\ Len(IssueCalls) <= Cardinality({i \in DOMAIN srcIssues : srcIssues[i].state = "opened"})
    /\ Len(CallsTo(calls, {"CreateMilestone"})) <=
          Cardinality({i \in DOMAIN srcMilestones : srcMilestones[i].state = "active"})

\* a finished run on a source with a closed issue listed before an open
\* one: the open one was migrated, the closed one caused no call
C26_Witness ==
    /\ phase = "done"
    /\ Len(srcIssues) = 2
    /\ srcIssues[1].state = "closed"
    /\ srcIssues[2].state = "opened"
    /\ Len(IssueCalls) = 1
    /\ PayloadTitle(IssueCalls[1]) = srcIssues[2].title


(* ---------------- C27 ---------------- *)

\* the source issue refers to an active source milestone and to source
\* project labels only
RefersToSource(issue) ==
    /\ issue.milestone \in Titles(FilterState(srcMilestones, "active"))
    /\ \A i \in DOMAIN issue.labels : issue.labels[i] \in Names(srcLabels)

\* C27 as claimed: references created earlier in the same run resolve.  For
\* every processed open source issue whose milestone is an active source
\* milestone and whose labels are all source labels, the payload carries a
\* milestone ID and one label ID per label, and no unknown-milestone or
\* unknown-label warning names one of its references, however many
\* milestones and labels the destination holds.
C27_ReferencesResolve ==
    /\ \A k \in DOMAIN IssueCalls :
          RefersToSource(IssuesStreamed[k]) =>
             /\ PayloadMilestone(IssueCalls[k]) # NoID
             /\ \A i \in DOMAIN WarningsLogged :
                   /\ WarningsLogged[i] # <<"Unknown milestone", IssuesStreamed[k].milestone>>
                   /\ \A j \in DOMAIN IssuesStreamed[k].labels :
                         WarningsLogged[i] # <<"Unknown label", IssuesStreamed[k].labels[j]>>
    /\ \A k \in DOMAIN IssueLabelCalls :
          RefersToSource(IssuesStreamed[k]) =>
             Len(PayloadLabels(IssueLabelCalls[k])) = Len(IssuesStreamed[k].labels)


(* ---------------- C28 ---------------- *)

\* C28: updating leaves the identity and the state of the destination issue
\* unchanged.  Every destination issue keeps the index and the open/closed
\* state it was listed with at the start of the issue phase; and right after
\* a successful update the updated issue, at the index and in the state of
\* its table entry, carries the source issue's body, resolved milestone and
\* resolved labels: a closed destination issue that matches an open source
\* issue by title is overwritten and stays closed.
C28_UpdateKeepsIdentityAndState ==
    /\ \A i \in DOMAIN IssuesListed :
          /\ dstIssues[i].index = IssuesListed[i].index
          /\ dstIssues[i].state = IssuesListed[i].state
    /\ (calls # <<>> /\ LastCall.op = "ReplaceIssueLabels" /\ LastCall.ok) =>
          LET issue == IssuesStreamed[Len(IssueCalls)]
              d == DstIssueAt(LastCall.arg.index)
          IN /\ d.index = giteaIssues[issue.title].index
             /\ d.state = giteaIssues[issue.title].state
             /\ d.title = issue.title
             /\ d.body = issue.description
             /\ d.milestone = ExpectedMilestoneID(issue)
             /\ d.labels = ExpectedLabelIDs(issue)

\* a finished run that overwrote a closed destination issue, which is still
\* closed
C28_Witness ==
    /\ phase = "done"
    /\ \E k \in DOMAIN calls :
          /\ calls[k].op = "ReplaceIssueLabels"
          /\ calls[k].ok
          /\ giteaIssues[calls[k - 1].arg.opt.title].state = "closed"
          /\ DstIssueAt(calls[k].arg.index).state = "closed"
          /\ DstIssueAt(calls[k].arg.index).body = calls[k - 1].arg.opt.body
          /\ DstIssueAt(calls[k].arg.index).body # giteaIssues[calls[k - 1].arg.opt.title].body


====
